---- MODULE Spec2Model ----
(***************************************************************************)
(* memtrack-utils: the Interpreter (binary records -> textual trace), the  *)
(* Resolver (ip -> module, locations), the Parser (textual trace ->        *)
(* AccumulatedData) and the record stream of a traced child process.       *)
(*                                                                         *)
(* Objects are records whose fields carry the names of the Rust fields;    *)
(* methods are operators from the object (and the call's arguments) to the *)
(* object after the call and the call's result.  Option<T> is a sequence   *)
(* of length 0 (None) or 1 (Some).  The output file is the sequence of the *)
(* lines written to it; a line is its first token, its hexadecimal tokens  *)
(* (digit sequences, as "{:x}" prints them) and its raw text remainder.    *)
(***************************************************************************)
EXTENDS Integers, Sequences, FiniteSets, TLC

VARIABLES
    interp,     \* the Interpreter object (interpret.rs)
    exec,       \* Interpreter::exec: "running", "Ok" or the error returned
    history,    \* the records handed to handle_record so far, in order, each
                \* with what the environment (the debug-info loader) answered
    parser,     \* the Parser object (parser.rs): data, last_ptr
    pos,        \* number of lines of the output file parse_file has read
    presult,    \* parse_file: "running", "Ok", the error returned, or "panic"
    seen,       \* observations of the parse: underflow, maximum of total.leaked
    child,      \* the traced child process: pc, exit status, records written
    pipe,       \* the FIFO: records in flight, write end open or closed
    rd,         \* ExecResult: reader opened, position in next()
    ptab,       \* a pointer table driven directly by add_pointer/take_pointer
    pmap,       \* the plain map ptr -> allocation index ptab is compared with
    ptaken,     \* last take_pointer on ptab: pointer, result, the map's answer
    written,    \* the frames of each write_instruction call, in order
    resolver,   \* a Resolver driven directly by add_module/lookup
    lookups,    \* the lookup calls on resolver: their number, each ip's first
                \* result and first hit, and the last call
    trace_file, \* the lines of a trace file not written by the Interpreter
                \* that parse_file has handed to parse_line, in order
    wire        \* the FIFO as bytes, between a PipeWriter and a PipeReader:
                \* the bytes in flight, the records written, the results of
                \* read_record

vars == <<interp, exec, history, parser, pos, presult, seen, child, pipe, rd,
          ptab, pmap, ptaken, written, resolver, lookups,
          trace_file, wire>>

(***************************************************************************)
(* Bounds of the model.                                                    *)
(***************************************************************************)
MaxRecords == 4        \* records per stream (memory pipeline)
MaxSymRecords == 3     \* records per stream (symbolication pipeline)
MaxFrames == 2         \* locations the loader yields for one ip
MaxChildRecords == 2   \* records the child writes
MaxPtrOps == 5         \* add_pointer/take_pointer calls on the bare table
MaxLookups == 3        \* lookup calls on the bare Resolver
MaxModules == 2        \* add_module calls on the bare Resolver
MaxFileLines == 3      \* lines of a trace file given to the Parser
MaxMixRecords == 3     \* records per stream (all kinds of record)
MaxWireFrames == 2     \* frames written to the FIFO

\* 2^64 scaled to the model checker's integers; every value of the model is
\* far below it, so additions never wrap and a wrapped difference is
\* recognisable.
U64 == 2^30

PAGE_SIZE == 16383

Ptrs == {0, 4}
Sizes == {8, 16}
Parents == {1, 2}
TablePtrs == {0, 4, 16383, 16387, 65536, 65537, 81920}
TableIdx == {0, 1, 2}

Max(a, b) == IF a >= b THEN a ELSE b

None == <<>>
Some(x) == <<x>>

\* position (1-based) of x in the insertion-ordered set s, 0 when absent:
\* IndexSet::get_full, whose 0-based index is the position minus one
IndexOf(s, x) ==
    IF \E i \in 1..Len(s) : s[i] = x
    THEN CHOOSE i \in 1..Len(s) : s[i] = x /\ \A j \in 1..(i-1) : s[j] # x
    ELSE 0

(***************************************************************************)
(* "{:x}" and from_str_radix(_, 16)                                        *)
(***************************************************************************)
RECURSIVE ToHex(_)
ToHex(n) == IF n < 16 THEN <<n>> ELSE Append(ToHex(n \div 16), n % 16)

RECURSIVE FromHex(_)
FromHex(t) ==
    IF Len(t) = 1 THEN t[1]
    ELSE 16 * FromHex(SubSeq(t, 1, Len(t) - 1)) + t[Len(t)]

Line(first, toks, text) == [first |-> first, toks |-> toks, text |-> text]

(***************************************************************************)
(* output.rs: each write_* is the line it writes                           *)
(***************************************************************************)
Output_write_version(version, file_version) ==
    Line("v", <<ToHex(version), ToHex(file_version)>>, "")

Output_write_page_info(page_size, pages) ==
    Line("I", <<ToHex(page_size), ToHex(pages)>>, "")

Output_write_exec(command) == Line("X", <<>>, command)

Output_write_string(value) == Line("s", <<ToHex(Len(value))>>, value)

FrameTokens(frame) ==
    IF frame.kind = "Single"
    THEN <<ToHex(frame.function_idx)>>
    ELSE <<ToHex(frame.function_idx), ToHex(frame.file_idx),
           ToHex(frame.line_number)>>

RECURSIVE FramesTokens(_)
FramesTokens(frames) ==
    IF frames = <<>> THEN <<>>
    ELSE FrameTokens(Head(frames)) \o FramesTokens(Tail(frames))

Output_write_instruction(ip, module_idx, frames) ==
    Line("i", <<ToHex(ip), ToHex(module_idx)>> \o FramesTokens(frames), "")

Output_write_trace(ip_id, parent_idx) ==
    Line("t", <<ToHex(ip_id), ToHex(parent_idx)>>, "")

Output_write_trace_alloc(size, idx) ==
    Line("a", <<ToHex(size), ToHex(idx)>>, "")

Output_write_alloc(idx) == Line("+", <<ToHex(idx)>>, "")

Output_write_free(idx) == Line("-", <<ToHex(idx)>>, "")

Output_write_duration(duration) == Line("c", <<ToHex(duration)>>, "")

Output_write_rss(rss) == Line("R", <<ToHex(rss)>>, "")

Output_write(value) == Line("", <<>>, value)

\* "{}" of a count
RECURSIVE ToDec(_)
ToDec(n) == IF n < 10 THEN <<n>> ELSE Append(ToDec(n \div 10), n % 10)

\* the comment is format!("<label>{}", n): its label and the decimal digits
Output_write_comment(label, n) == Line("#", <<ToDec(n)>>, label)

FrameSingle(f) == [kind |-> "Single", function_idx |-> f, file_idx |-> 0,
                   line_number |-> 0]
FrameMultiple(f, file, line) ==
    [kind |-> "Multiple", function_idx |-> f, file_idx |-> file,
     line_number |-> line]


EmptyMap == [x \in {} |-> 0]
MapPut(m, k, v) == [x \in DOMAIN m \cup {k} |-> IF x = k THEN v ELSE m[x]]
MapDel(m, k) == [x \in DOMAIN m \ {k} |-> m[x]]

\* Vec::swap_remove at the 1-based position i
SwapRemove(s, i) ==
    [k \in 1..(Len(s) - 1) |-> IF k = i THEN s[Len(s)] ELSE s[k]]

(***************************************************************************)
(* pipe_io.rs: Record                                                      *)
(***************************************************************************)
RecVersion(v) == [tag |-> "Version", version |-> v]
RecExec(cmd) == [tag |-> "Exec", cmd |-> cmd]
RecImage(name, start_address, size) ==
    [tag |-> "Image", name |-> name, start_address |-> start_address,
     size |-> size]
RecPageInfo(size, pages) == [tag |-> "PageInfo", size |-> size, pages |-> pages]
RecTrace(ip, parent_idx) == [tag |-> "Trace", ip |-> ip, parent_idx |-> parent_idx]
RecAlloc(ptr, size, parent_idx) ==
    [tag |-> "Alloc", ptr |-> ptr, size |-> size, parent_idx |-> parent_idx]
RecFree(ptr) == [tag |-> "Free", ptr |-> ptr]
RecDuration(d) == [tag |-> "Duration", duration |-> d]
RecRSS(rss) == [tag |-> "RSS", rss |-> rss]

(***************************************************************************)
(* pipe_io.rs: the frames on the FIFO.  A byte stream is a sequence of      *)
(* elements: the n bytes of a little-endian integer v, and n bytes of a     *)
(* string str from its offset v.  Integers are below 2^31.                  *)
(***************************************************************************)
LeInt(v, n) == [v |-> v, str |-> "", n |-> n]
Run(str, from, n) == [v |-> from, str |-> str, n |-> n]
IsLeInt(e) == e.str = ""

RECURSIVE ByteLen(_)
ByteLen(bytes) ==
    IF bytes = <<>> THEN 0 ELSE Head(bytes).n + ByteLen(Tail(bytes))

\* the n low bytes of a little-endian integer, and the bytes above them
LowBytes(v, n) == IF n >= 4 THEN v ELSE v % (256 ^ n)
HighBytes(v, n) == IF n >= 4 THEN 0 ELSE v \div (256 ^ n)

\* the first n bytes of the stream and what follows them
RECURSIVE Take(_, _)
Take(bytes, n) ==
    IF n = 0 \/ bytes = <<>> THEN [head |-> <<>>, rest |-> bytes]
    ELSE LET e == Head(bytes) IN
         IF e.n <= n
         THEN LET t == Take(Tail(bytes), n - e.n) IN
              [head |-> <<e>> \o t.head, rest |-> t.rest]
         ELSE IF IsLeInt(e)
         THEN [head |-> <<LeInt(LowBytes(e.v, n), n)>>,
               rest |-> <<LeInt(HighBytes(e.v, n), e.n - n)>> \o Tail(bytes)]
         ELSE [head |-> <<Run(e.str, e.v, n)>>,
               rest |-> <<Run(e.str, e.v + n, e.n - n)>> \o Tail(bytes)]

\* to_le_bytes, and bincode's fixed-width little-endian integers
LE(value, width) == <<LeInt(value, width)>>

\* from_le_bytes
RECURSIVE FromLE(_)
FromLE(bytes) ==
    IF bytes = <<>> THEN 0
    ELSE LET above == FromLE(Tail(bytes)) IN
         IF above = 0 THEN Head(bytes).v
         ELSE Head(bytes).v + (256 ^ Head(bytes).n) * above

\* bincode: a String is its length as u64 and then its bytes
StringBytes(value) ==
    LE(Len(value), 8)
    \o IF value = "" THEN <<>> ELSE <<Run(value, 0, Len(value))>>

\* bincode::serialize(&record): the variant's index as u32, then its fields
\* in order (usize as u64)
serialize(record) ==
    CASE record.tag = "Version" -> LE(0, 4) \o LE(record.version, 2)
      [] record.tag = "Exec" -> LE(1, 4) \o StringBytes(record.cmd)
      [] record.tag = "Image" ->
            LE(2, 4) \o StringBytes(record.name)
                \o LE(record.start_address, 8) \o LE(record.size, 8)
      [] record.tag = "PageInfo" ->
            LE(3, 4) \o LE(record.size, 8) \o LE(record.pages, 8)
      [] record.tag = "Trace" ->
            LE(4, 4) \o LE(record.ip, 8) \o LE(record.parent_idx, 8)
      [] record.tag = "Alloc" ->
            LE(5, 4) \o LE(record.ptr, 8) \o LE(record.size, 8)
                \o LE(record.parent_idx, 8)
      [] record.tag = "Free" -> LE(6, 4) \o LE(record.ptr, 8)
      [] record.tag = "Duration" -> LE(7, 4) \o LE(record.duration, 16)
      [] record.tag = "RSS" -> LE(8, 4) \o LE(record.rss, 8)

\* an integer of the given width at the front of the bytes
ReadInt(bytes, width) ==
    LET t == Take(bytes, width) IN
    IF ByteLen(bytes) >= width /\ \A i \in 1..Len(t.head) : IsLeInt(t.head[i])
    THEN [ok |-> TRUE, value |-> FromLE(t.head), rest |-> t.rest]
    ELSE [ok |-> FALSE, value |-> 0, rest |-> <<>>]

\* a String at the front of the bytes: its length, then that many bytes (in
\* this model the whole of one string's bytes)
ReadString(bytes) ==
    LET len == ReadInt(bytes, 8) IN
    IF ~len.ok THEN [ok |-> FALSE, value |-> "", rest |-> <<>>]
    ELSE IF len.value = 0 THEN [ok |-> TRUE, value |-> "", rest |-> len.rest]
    ELSE IF /\ len.rest # <<>>
            /\ ~IsLeInt(len.rest[1])
            /\ len.rest[1].v = 0
            /\ len.rest[1].n = len.value
            /\ Len(len.rest[1].str) = len.value
    THEN [ok |-> TRUE, value |-> len.rest[1].str, rest |-> Tail(len.rest)]
    ELSE [ok |-> FALSE, value |-> "", rest |-> <<>>]

\* as many integers of the given width at the front of the bytes
RECURSIVE ReadInts(_, _, _)
ReadInts(bytes, width, count) ==
    IF count = 0 THEN [ok |-> TRUE, values |-> <<>>, rest |-> bytes]
    ELSE LET first == ReadInt(bytes, width) IN
         IF ~first.ok THEN [ok |-> FALSE, values |-> <<>>, rest |-> <<>>]
         ELSE LET more == ReadInts(first.rest, width, count - 1) IN
              [ok |-> more.ok, values |-> <<first.value>> \o more.values,
               rest |-> more.rest]

Decoded(record) == [ok |-> TRUE, record |-> record]
Undecoded == [ok |-> FALSE, record |-> RecVersion(0)]

\* bincode::deserialize(&buf): bytes after the record are allowed, missing
\* bytes and an unknown variant index are errors
deserialize(buf) ==
    LET tag == ReadInt(buf, 4)
        ints(count) == ReadInts(tag.rest, 8, count)
    IN IF ~tag.ok THEN Undecoded
       ELSE CASE tag.value = 0 ->
                   LET version == ReadInt(tag.rest, 2) IN
                   IF version.ok THEN Decoded(RecVersion(version.value))
                   ELSE Undecoded
              [] tag.value = 1 ->
                   LET cmd == ReadString(tag.rest) IN
                   IF cmd.ok THEN Decoded(RecExec(cmd.value)) ELSE Undecoded
              [] tag.value = 2 ->
                   LET name == ReadString(tag.rest)
                       fields == ReadInts(name.rest, 8, 2)
                   IN IF name.ok /\ fields.ok
                      THEN Decoded(RecImage(name.value, fields.values[1],
                                            fields.values[2]))
                      ELSE Undecoded
              [] tag.value = 3 ->
                   IF ints(2).ok
                   THEN Decoded(RecPageInfo(ints(2).values[1],
                                            ints(2).values[2]))
                   ELSE Undecoded
              [] tag.value = 4 ->
                   IF ints(2).ok
                   THEN Decoded(RecTrace(ints(2).values[1], ints(2).values[2]))
                   ELSE Undecoded
              [] tag.value = 5 ->
                   IF ints(3).ok
                   THEN Decoded(RecAlloc(ints(3).values[1], ints(3).values[2],
                                         ints(3).values[3]))
                   ELSE Undecoded
              [] tag.value = 6 ->
                   IF ints(1).ok THEN Decoded(RecFree(ints(1).values[1]))
                   ELSE Undecoded
              [] tag.value = 7 ->
                   LET duration == ReadInt(tag.rest, 16) IN
                   IF duration.ok THEN Decoded(RecDuration(duration.value))
                   ELSE Undecoded
              [] tag.value = 8 ->
                   IF ints(1).ok THEN Decoded(RecRSS(ints(1).values[1]))
                   ELSE Undecoded
              [] OTHER -> Undecoded

\* the length of PipeReader's buf
BUF_LEN == 1024

\* what read_record returns; "panic" when it does not return
ReadNone == [kind |-> "None", record |-> RecVersion(0)]
ReadErr(error) == [kind |-> error, record |-> RecVersion(0)]
ReadOk(record) == [kind |-> "Ok", record |-> record]

\* PipeReader::read_record on the bytes of a FIFO whose read would not block
read_record(bytes) ==
    IF ByteLen(bytes) < 2 THEN [out |-> ReadNone, rest |-> <<>>]
    ELSE LET length_buf == Take(bytes, 2)
             len == FromLE(length_buf.head)
         IN IF len > BUF_LEN
            THEN \* &mut self.buf[..len]: index out of range
                 [out |-> ReadErr("panic"), rest |-> length_buf.rest]
            ELSE IF ByteLen(length_buf.rest) < len
            THEN [out |-> ReadErr("IOError"), rest |-> <<>>]
            ELSE LET buf == Take(length_buf.rest, len)
                     record == deserialize(buf.head)
                 IN [out |-> IF record.ok THEN ReadOk(record.record)
                             ELSE ReadErr("InvalidFormat"),
                     rest |-> buf.rest]

\* PipeWriter::write_record: the bytes the writer has written, and `record`
write_record(bytes, record) ==
    LET s == serialize(record) IN
    bytes \o LE(ByteLen(s) % (2 ^ 16), 2) \o s

(***************************************************************************)
(* resolver.rs                                                             *)
(***************************************************************************)
\* what the debug-info loader answers for one lookup: the locations
\* find_frames yields (possibly none) and the name find_symbol falls back to
Location(function_name, file_name, line_number) ==
    [function_name |-> function_name, file_name |-> file_name,
     line_number |-> line_number]

Module_new(id, path, start_address, size) ==
    [id |-> id, path |-> path, start_address |-> start_address,
     end_address |-> start_address + size]

Module_lookup(module, found, symbol) ==
    Some([module_id |-> module.id,
          locations |-> IF found = <<>>
                        THEN <<Location(symbol, None, None)>>
                        ELSE found])

\* rangemap::RangeMap: insert replaces what the new range overlaps, so the
\* value at a point is that of the last inserted range holding the point
RangeMap_insert(modules, start, end, module) ==
    Append(modules, [start |-> start, end |-> end, value |-> module])

RangeMap_get(modules, ip) ==
    LET hits == {i \in 1..Len(modules) :
                    modules[i].start <= ip /\ ip < modules[i].end}
    IN IF hits = {} THEN None
       ELSE Some(modules[CHOOSE i \in hits : \A j \in hits : j <= i].value)

ResolverNew == [modules |-> <<>>, cached |-> EmptyMap, loaders |-> EmptyMap]

\* loader_ok: whether Loader::new opens the file at file_path
Resolver_add_module(rs, id, file_path, start_address, size, loader_ok) ==
    LET module == Module_new(id, file_path, start_address, size) IN
    IF ~loader_ok THEN [rs |-> rs, err |-> "ModuleNotFound"]
    ELSE IF module.start_address >= module.end_address
    THEN [rs |-> [rs EXCEPT !.loaders = MapPut(@, start_address, file_path)],
          err |-> "panic"]
    ELSE [rs |-> [rs EXCEPT
                    !.loaders = MapPut(@, start_address, file_path),
                    !.modules = RangeMap_insert(@, module.start_address,
                                                module.end_address, module)],
          err |-> ""]

\* lookup that fills the cache and never reads it
Resolver_lookup_cache_unread(rs, ip, found, symbol) ==
    LET module == RangeMap_get(rs.modules, ip) IN
    IF module = None THEN [rs |-> rs, res |-> None]
    ELSE IF module[1].start_address \notin DOMAIN rs.loaders
    THEN [rs |-> rs, res |-> None]
    ELSE LET locations == Module_lookup(module[1], found, symbol) IN
         [rs |-> [rs EXCEPT !.cached = MapPut(@, ip, locations[1])],
          res |-> locations]

Resolver_lookup(rs, ip, found, symbol) ==
    IF ip \in DOMAIN rs.cached THEN [rs |-> rs, res |-> Some(rs.cached[ip])]
    ELSE LET module == RangeMap_get(rs.modules, ip) IN
         IF module = None THEN [rs |-> rs, res |-> None]
         ELSE IF module[1].start_address \notin DOMAIN rs.loaders
         THEN [rs |-> rs, res |-> None]
         ELSE LET locations == Module_lookup(module[1], found, symbol) IN
              [rs |-> [rs EXCEPT !.cached = MapPut(@, ip, locations[1])],
               res |-> locations]

(***************************************************************************)
(* interpret.rs                                                            *)
(***************************************************************************)
SplitPointer_new(ptr) ==
    [big |-> ptr \div PAGE_SIZE, small |-> ptr % PAGE_SIZE]

IndicesDefault == [small_ptr_parts |-> <<>>, allocation_indices |-> <<>>]

InterpreterNew ==
    [output |-> <<>>, strings |-> <<>>, frames |-> <<>>,
     pointers |-> EmptyMap, allocation_info |-> <<>>,
     resolver |-> ResolverNew,
     stats |-> [allocations |-> 0, leaked_allocations |-> 0,
                tmp_allocations |-> 0],
     last_ptr |-> 0]

Emit(it, line) == [it EXCEPT !.output = Append(@, line)]

\* write_string answering the newest id, not the found one, on a hit
write_string_newest_on_hit(it, value) ==
    LET p == IndexOf(it.strings, value) IN
    IF p = 0
    THEN [it |-> Emit([it EXCEPT !.strings = Append(@, value)],
                      Output_write_string(value)),
          id |-> Len(it.strings) + 1]
    ELSE [it |-> it, id |-> Len(it.strings)]

write_string(it, value) ==
    LET p == IndexOf(it.strings, value) IN
    IF p = 0
    THEN [it |-> Emit([it EXCEPT !.strings = Append(@, value)],
                      Output_write_string(value)),
          id |-> Len(it.strings) + 1]
    ELSE [it |-> it, id |-> p]

\* add_alloc returning the newest index, not the found one, on a hit
add_alloc_newest_on_hit(it, size, parent_idx) ==
    LET info == [size |-> size, trace_idx |-> parent_idx]
        p == IndexOf(it.allocation_info, info)
    IN IF p = 0
       THEN [it |-> Emit([it EXCEPT !.allocation_info = Append(@, info)],
                         Output_write_trace_alloc(size, parent_idx)),
             idx |-> Len(it.allocation_info)]
       ELSE [it |-> it, idx |-> Len(it.allocation_info) - 1]

\* add_alloc writing the `a` line on a hit as well
add_alloc_rewrites_on_hit(it, size, parent_idx) ==
    LET info == [size |-> size, trace_idx |-> parent_idx]
        p == IndexOf(it.allocation_info, info)
    IN IF p = 0
       THEN [it |-> Emit([it EXCEPT !.allocation_info = Append(@, info)],
                         Output_write_trace_alloc(size, parent_idx)),
             idx |-> Len(it.allocation_info)]
       ELSE [it |-> Emit(it, Output_write_trace_alloc(size, parent_idx)),
             idx |-> p - 1]

\* add_alloc numbering the entries from 1, as write_string numbers strings
add_alloc_one_based(it, size, parent_idx) ==
    LET info == [size |-> size, trace_idx |-> parent_idx]
        p == IndexOf(it.allocation_info, info)
    IN IF p = 0
       THEN [it |-> Emit([it EXCEPT !.allocation_info = Append(@, info)],
                         Output_write_trace_alloc(size, parent_idx)),
             idx |-> Len(it.allocation_info) + 1]
       ELSE [it |-> it, idx |-> p]

add_alloc(it, size, parent_idx) ==
    LET info == [size |-> size, trace_idx |-> parent_idx]
        p == IndexOf(it.allocation_info, info)
    IN IF p = 0
       THEN [it |-> Emit([it EXCEPT !.allocation_info = Append(@, info)],
                         Output_write_trace_alloc(size, parent_idx)),
             idx |-> Len(it.allocation_info)]
       ELSE [it |-> it, idx |-> p - 1]

add_pointer(pointers, ptr, allocation_idx) ==
    LET pointer == SplitPointer_new(ptr)
        indices == IF pointer.big \in DOMAIN pointers
                   THEN pointers[pointer.big] ELSE IndicesDefault
        p == IndexOf(indices.small_ptr_parts, pointer.small)
    IN IF p = 0
       THEN MapPut(pointers, pointer.big,
                   [small_ptr_parts |->
                        Append(indices.small_ptr_parts, pointer.small),
                    allocation_indices |->
                        Append(indices.allocation_indices, allocation_idx)])
       ELSE MapPut(pointers, pointer.big,
                   [indices EXCEPT !.allocation_indices[p] = allocation_idx])

\* take_pointer removing the low part but not its allocation index
take_pointer_desync(pointers, ptr) ==
    LET pointer == SplitPointer_new(ptr) IN
    IF pointer.big \notin DOMAIN pointers
    THEN [pointers |-> pointers, res |-> None]
    ELSE LET indices == pointers[pointer.big]
             p == IndexOf(indices.small_ptr_parts, pointer.small)
         IN IF p = 0 THEN [pointers |-> pointers, res |-> None]
            ELSE LET left ==
                        [small_ptr_parts |->
                             SwapRemove(indices.small_ptr_parts, p),
                         allocation_indices |-> indices.allocation_indices]
                 IN [pointers |->
                        IF left.small_ptr_parts = <<>>
                        THEN MapDel(pointers, pointer.big)
                        ELSE MapPut(pointers, pointer.big, left),
                     res |-> Some(indices.allocation_indices[p])]

\* take_pointer reading the entry and leaving it in the table
take_pointer_keep(pointers, ptr) ==
    LET pointer == SplitPointer_new(ptr) IN
    IF pointer.big \notin DOMAIN pointers
    THEN [pointers |-> pointers, res |-> None]
    ELSE LET indices == pointers[pointer.big]
             p == IndexOf(indices.small_ptr_parts, pointer.small)
         IN IF p = 0 THEN [pointers |-> pointers, res |-> None]
            ELSE [pointers |-> pointers,
                  res |-> Some(indices.allocation_indices[p])]

\* take_pointer leaving an emptied bucket in the outer map
take_pointer_keep_bucket(pointers, ptr) ==
    LET pointer == SplitPointer_new(ptr) IN
    IF pointer.big \notin DOMAIN pointers
    THEN [pointers |-> pointers, res |-> None]
    ELSE LET indices == pointers[pointer.big]
             p == IndexOf(indices.small_ptr_parts, pointer.small)
         IN IF p = 0 THEN [pointers |-> pointers, res |-> None]
            ELSE LET left ==
                        [small_ptr_parts |->
                             SwapRemove(indices.small_ptr_parts, p),
                         allocation_indices |->
                             SwapRemove(indices.allocation_indices, p)]
                 IN [pointers |-> MapPut(pointers, pointer.big, left),
                     res |-> Some(indices.allocation_indices[p])]

take_pointer(pointers, ptr) ==
    LET pointer == SplitPointer_new(ptr) IN
    IF pointer.big \notin DOMAIN pointers
    THEN [pointers |-> pointers, res |-> None]
    ELSE LET indices == pointers[pointer.big]
             p == IndexOf(indices.small_ptr_parts, pointer.small)
         IN IF p = 0 THEN [pointers |-> pointers, res |-> None]
            ELSE LET left ==
                        [small_ptr_parts |->
                             SwapRemove(indices.small_ptr_parts, p),
                         allocation_indices |->
                             SwapRemove(indices.allocation_indices, p)]
                 IN [pointers |->
                        IF left.allocation_indices = <<>>
                        THEN MapDel(pointers, pointer.big)
                        ELSE MapPut(pointers, pointer.big, left),
                     res |-> Some(indices.allocation_indices[p])]

\* the loop of add_frame over result.locations: interns the names and
\* builds the frames; stops at the first error
RECURSIVE add_frame_locations(_, _, _)
add_frame_locations(it, locations, frames) ==
    IF locations = <<>> THEN [it |-> it, frames |-> frames, err |-> ""]
    ELSE LET location == Head(locations)
             fn == write_string(it, location.function_name)
         IN IF location.file_name # None
            THEN LET file == write_string(fn.it, location.file_name[1]) IN
                 IF location.line_number = None
                 THEN [it |-> file.it, frames |-> frames,
                       err |-> "empty line number"]
                 ELSE add_frame_locations(
                          file.it, Tail(locations),
                          Append(frames,
                                 FrameMultiple(fn.id, file.id,
                                               location.line_number[1])))
            ELSE add_frame_locations(fn.it, Tail(locations),
                                     Append(frames, FrameSingle(fn.id)))

\* add_frame answering the 0-based index on a hit
add_frame_index_on_hit(it, ip, env) ==
    LET p == IndexOf(it.frames, ip) IN
    IF p # 0 THEN [it |-> it, id |-> p - 1, err |-> "", written |-> None]
    ELSE LET id == Len(it.frames)
             it1 == [it EXCEPT !.frames = Append(@, ip)]
             look == Resolver_lookup(it1.resolver, ip, env.found, env.symbol)
             it2 == [it1 EXCEPT !.resolver = look.rs]
         IN IF look.res = None
            THEN [it |-> it2, id |-> 0, err |-> "ip locations not found",
                  written |-> None]
            ELSE LET result == look.res[1]
                     built == add_frame_locations(it2, result.locations, <<>>)
                 IN IF built.err # ""
                    THEN [it |-> built.it, id |-> 0, err |-> built.err,
                          written |-> None]
                    ELSE [it |-> Emit(built.it,
                                      Output_write_instruction(
                                          ip, result.module_id, built.frames)),
                          id |-> id + 1, err |-> "",
                          written |-> Some(built.frames)]

\* env: the loader's answer, env.found and env.symbol
add_frame(it, ip, env) ==
    LET p == IndexOf(it.frames, ip) IN
    IF p # 0 THEN [it |-> it, id |-> p, err |-> "", written |-> None]
    ELSE LET id == Len(it.frames)
             it1 == [it EXCEPT !.frames = Append(@, ip)]
             look == Resolver_lookup(it1.resolver, ip, env.found, env.symbol)
             it2 == [it1 EXCEPT !.resolver = look.rs]
         IN IF look.res = None
            THEN [it |-> it2, id |-> 0, err |-> "ip locations not found",
                  written |-> None]
            ELSE LET result == look.res[1]
                     built == add_frame_locations(it2, result.locations, <<>>)
                 IN IF built.err # ""
                    THEN [it |-> built.it, id |-> 0, err |-> built.err,
                          written |-> None]
                    ELSE [it |-> Emit(built.it,
                                      Output_write_instruction(
                                          ip, result.module_id, built.frames)),
                          id |-> id + 1, err |-> "",
                          written |-> Some(built.frames)]

handle_image(it, record, env) ==
    LET module_id == write_string(it, record.name)
        added == Resolver_add_module(module_id.it.resolver, module_id.id,
                                     record.name, record.start_address,
                                     record.start_address + record.size,
                                     env.loader_ok)
    IN [it |-> [module_id.it EXCEPT !.resolver = added.rs],
        err |-> IF added.err = "panic" THEN "panic" ELSE "",
        written |-> None]

handle_trace(it, record, env) ==
    LET ip_id == add_frame(it, record.ip, env) IN
    IF ip_id.err # ""
    THEN [it |-> ip_id.it, err |-> ip_id.err, written |-> None]
    ELSE [it |-> Emit(ip_id.it,
                      Output_write_trace(ip_id.id, record.parent_idx)),
          err |-> "", written |-> ip_id.written]

handle_alloc(it, record) ==
    LET it1 == [it EXCEPT !.stats.allocations = @ + 1,
                          !.stats.leaked_allocations = @ + 1]
        idx == add_alloc(it1, record.size, record.parent_idx)
        it2 == [idx.it EXCEPT
                    !.pointers = add_pointer(@, record.ptr, idx.idx),
                    !.last_ptr = record.ptr]
    IN [it |-> Emit(it2, Output_write_alloc(idx.idx)), err |-> "",
        written |-> None]

\* the Free arm resetting last_ptr only once the pointer was found
handle_free_late_reset(it, record) ==
    LET temporary == it.last_ptr = record.ptr
        taken == take_pointer(it.pointers, record.ptr)
    IN IF taken.res = None
       THEN [it |-> it, err |-> "", written |-> None]
       ELSE [it |-> [Emit([it EXCEPT !.pointers = taken.pointers,
                                     !.last_ptr = 0],
                          Output_write_free(taken.res[1]))
                       EXCEPT !.stats.tmp_allocations =
                                  IF temporary THEN @ + 1 ELSE @,
                              !.stats.leaked_allocations = @ - 1],
             err |-> "", written |-> None]

handle_free(it, record) ==
    LET temporary == it.last_ptr = record.ptr
        it1 == [it EXCEPT !.last_ptr = 0]
        taken == take_pointer(it1.pointers, record.ptr)
    IN IF taken.res = None
       THEN [it |-> it1, err |-> "", written |-> None]
       ELSE [it |-> [Emit([it1 EXCEPT !.pointers = taken.pointers],
                          Output_write_free(taken.res[1]))
                       EXCEPT !.stats.tmp_allocations =
                                  IF temporary THEN @ + 1 ELSE @,
                              !.stats.leaked_allocations = @ - 1],
             err |-> "", written |-> None]

NoErr(it) == [it |-> it, err |-> "", written |-> None]

handle_record(it, record, env) ==
    CASE record.tag = "Version" ->
            NoErr(Emit(it, Output_write_version(record.version, 3)))
      [] record.tag = "Exec" -> NoErr(Emit(it, Output_write_exec(record.cmd)))
      [] record.tag = "Image" -> handle_image(it, record, env)
      [] record.tag = "PageInfo" ->
            NoErr(Emit(it, Output_write_page_info(record.size, record.pages)))
      [] record.tag = "Trace" -> handle_trace(it, record, env)
      [] record.tag = "Alloc" -> handle_alloc(it, record)
      [] record.tag = "Free" -> handle_free(it, record)
      [] record.tag = "Duration" ->
            NoErr(Emit(it, Output_write_duration(record.duration)))
      [] record.tag = "RSS" -> NoErr(Emit(it, Output_write_rss(record.rss)))

\* write_comments reporting the number of strings under both labels
write_comments_copied_count(it) ==
    Emit(Emit(Emit(it, Output_write("")),
              Output_write_comment("strings: ", Len(it.strings))),
         Output_write_comment("ips: ", Len(it.strings)))

write_comments(it) ==
    Emit(Emit(Emit(it, Output_write("")),
              Output_write_comment("strings: ", Len(it.strings))),
         Output_write_comment("ips: ", Len(it.frames)))


(***************************************************************************)
(* parser.rs                                                               *)
(***************************************************************************)
AllocationDataDefault ==
    [allocations |-> 0, temporary |-> 0, leaked |-> 0, peak |-> 0]

AccumulatedDataNew ==
    [strings |-> <<>>, traces |-> <<>>, instruction_pointers |-> <<>>,
     allocation_indices |-> EmptyMap, allocation_infos |-> <<>>,
     allocations |-> <<>>, total |-> AllocationDataDefault,
     duration |-> 0, peak_rss |-> 0, page_size |-> 0, pages |-> 0]

ParserNew == [data |-> AccumulatedDataNew, last_ptr |-> 0]

\* u64 subtraction without overflow checks
Sub64(a, b) == IF a >= b THEN a - b ELSE a - b + U64

\* the last str_len bytes of an `s` line, whose text is all that follows
\* "s LEN "
Suffix(line, str_len) ==
    IF str_len = Len(line.text) THEN line.text ELSE "<other suffix>"

\* add_allocation pushing a new entry for a trace index it already holds
add_allocation_always_new(data, trace_idx) ==
    LET idx == Len(data.allocations) IN
    [data |-> [data EXCEPT
                 !.allocation_indices = MapPut(@, trace_idx, idx),
                 !.allocations =
                     Append(@, [trace_idx |-> trace_idx,
                                data |-> AllocationDataDefault])],
     idx |-> idx]

add_allocation(data, trace_idx) ==
    IF trace_idx \in DOMAIN data.allocation_indices
    THEN [data |-> data, idx |-> data.allocation_indices[trace_idx]]
    ELSE LET idx == Len(data.allocations) IN
         [data |-> [data EXCEPT
                      !.allocation_indices = MapPut(@, trace_idx, idx),
                      !.allocations =
                          Append(@, [trace_idx |-> trace_idx,
                                     data |-> AllocationDataDefault])],
          idx |-> idx]

\* one call of parse_frame on the remaining tokens
parse_frame(toks) ==
    IF toks = <<>> THEN [res |-> None, rest |-> <<>>, err |-> ""]
    ELSE LET function_idx == FromHex(toks[1]) IN
         IF Len(toks) = 1
         THEN [res |-> Some(FrameSingle(function_idx)), rest |-> <<>>,
               err |-> ""]
         ELSE IF Len(toks) = 2
         THEN [res |-> None, rest |-> <<>>, err |-> "InvalidFormat"]
         ELSE [res |-> Some(FrameMultiple(function_idx, FromHex(toks[2]),
                                          FromHex(toks[3]))),
               rest |-> SubSeq(toks, 4, Len(toks)), err |-> ""]

\* the `while let Some(frame) = parse_frame(..)?` loop
RECURSIVE parse_inlined(_, _)
parse_inlined(toks, inlined) ==
    LET f == parse_frame(toks) IN
    IF f.err # "" THEN [inlined |-> inlined, err |-> f.err]
    ELSE IF f.res = None THEN [inlined |-> inlined, err |-> ""]
    ELSE parse_inlined(f.rest, Append(inlined, f.res[1]))

POk(ps) == [ps |-> ps, err |-> "", underflow |-> FALSE]
PErr(ps, err) == [ps |-> ps, err |-> err, underflow |-> FALSE]

parse_instruction(ps, line) ==
    IF Len(line.toks) < 2 THEN PErr(ps, "InvalidFormat")
    ELSE LET ip == FromHex(line.toks[1])
             module_idx == FromHex(line.toks[2])
             first == parse_frame(SubSeq(line.toks, 3, Len(line.toks)))
         IN IF first.err # "" \/ first.res = None
            THEN PErr(ps, "InvalidFormat")
            ELSE LET more == parse_inlined(first.rest, <<>>) IN
                 IF more.err # "" THEN PErr(ps, more.err)
                 ELSE POk([ps EXCEPT !.data.instruction_pointers =
                              Append(@, [ip |-> ip, module_idx |-> module_idx,
                                         frame |-> first.res[1],
                                         inlined |-> more.inlined])])

parse_trace_alloc(ps, line) ==
    IF Len(line.toks) < 2 THEN PErr(ps, "InvalidFormat")
    ELSE LET size == FromHex(line.toks[1])
             trace_idx == FromHex(line.toks[2])
             added == add_allocation(ps.data, trace_idx)
         IN POk([ps EXCEPT !.data =
                    [added.data EXCEPT !.allocation_infos =
                        Append(@, [allocation_idx |-> added.idx,
                                   size |-> size])]])

\* the `+` arm comparing total.peak with total.leaked before the addition
parse_alloc_stale_peak(ps, line) ==
    IF Len(line.toks) < 1 THEN PErr(ps, "InvalidFormat")
    ELSE LET allocation_info_idx == FromHex(line.toks[1]) IN
         IF allocation_info_idx >= Len(ps.data.allocation_infos)
         THEN PErr(ps, "panic")
         ELSE LET info == ps.data.allocation_infos[allocation_info_idx + 1]
                  a == info.allocation_idx + 1
              IN IF info.allocation_idx >= Len(ps.data.allocations)
                 THEN PErr(ps, "Internal")
                 ELSE LET leaked == ps.data.allocations[a].data.leaked
                                        + info.size
                          total_leaked == ps.data.total.leaked + info.size
                      IN POk([ps EXCEPT
                           !.last_ptr = info.allocation_idx,
                           !.data.allocations[a].data.leaked = leaked,
                           !.data.allocations[a].data.peak =
                               IF leaked > @ THEN leaked ELSE @,
                           !.data.allocations[a].data.allocations = @ + 1,
                           !.data.total.leaked = total_leaked,
                           !.data.total.allocations = @ + 1,
                           !.data.total.peak =
                               IF ps.data.total.leaked > @
                               THEN ps.data.total.leaked ELSE @])

\* the `+` arm counting the allocation in its own entry and not in the total
parse_alloc_total_uncounted(ps, line) ==
    IF Len(line.toks) < 1 THEN PErr(ps, "InvalidFormat")
    ELSE LET allocation_info_idx == FromHex(line.toks[1]) IN
         IF allocation_info_idx >= Len(ps.data.allocation_infos)
         THEN PErr(ps, "panic")
         ELSE LET info == ps.data.allocation_infos[allocation_info_idx + 1]
                  a == info.allocation_idx + 1
              IN IF info.allocation_idx >= Len(ps.data.allocations)
                 THEN PErr(ps, "Internal")
                 ELSE LET leaked == ps.data.allocations[a].data.leaked
                                        + info.size
                          total_leaked == ps.data.total.leaked + info.size
                      IN POk([ps EXCEPT
                           !.last_ptr = info.allocation_idx,
                           !.data.allocations[a].data.leaked = leaked,
                           !.data.allocations[a].data.peak =
                               IF leaked > @ THEN leaked ELSE @,
                           !.data.allocations[a].data.allocations = @ + 1,
                           !.data.total.leaked = total_leaked,
                           !.data.total.peak =
                               IF total_leaked > @ THEN total_leaked ELSE @])

parse_alloc(ps, line) ==
    IF Len(line.toks) < 1 THEN PErr(ps, "InvalidFormat")
    ELSE LET allocation_info_idx == FromHex(line.toks[1]) IN
         IF allocation_info_idx >= Len(ps.data.allocation_infos)
         THEN PErr(ps, "panic")
         ELSE LET info == ps.data.allocation_infos[allocation_info_idx + 1]
                  a == info.allocation_idx + 1
              IN IF info.allocation_idx >= Len(ps.data.allocations)
                 THEN PErr(ps, "Internal")
                 ELSE LET leaked == ps.data.allocations[a].data.leaked
                                        + info.size
                          total_leaked == ps.data.total.leaked + info.size
                      IN POk([ps EXCEPT
                           !.last_ptr = info.allocation_idx,
                           !.data.allocations[a].data.leaked = leaked,
                           !.data.allocations[a].data.peak =
                               IF leaked > @ THEN leaked ELSE @,
                           !.data.allocations[a].data.allocations = @ + 1,
                           !.data.total.leaked = total_leaked,
                           !.data.total.allocations = @ + 1,
                           !.data.total.peak =
                               IF total_leaked > @ THEN total_leaked ELSE @])

parse_free(ps, line) ==
    IF Len(line.toks) < 1 THEN PErr(ps, "InvalidFormat")
    ELSE LET allocation_info_idx == FromHex(line.toks[1]) IN
         IF allocation_info_idx >= Len(ps.data.allocation_infos)
         THEN PErr(ps, "panic")
         ELSE LET info == ps.data.allocation_infos[allocation_info_idx + 1]
                  a == info.allocation_idx + 1
              IN IF info.allocation_idx >= Len(ps.data.allocations)
                 THEN PErr(ps, "Internal")
                 ELSE LET temporary == ps.last_ptr = info.allocation_idx IN
                      [ps |-> [ps EXCEPT
                           !.data.total.leaked = Sub64(@, info.size),
                           !.last_ptr = 0,
                           !.data.total.temporary =
                               IF temporary THEN @ + 1 ELSE @,
                           !.data.allocations[a].data.leaked =
                               Sub64(@, info.size),
                           !.data.allocations[a].data.temporary =
                               IF temporary THEN @ + 1 ELSE @],
                       err |-> "",
                       underflow |->
                           \/ ps.data.total.leaked < info.size
                           \/ ps.data.allocations[a].data.leaked < info.size]

\* the `R` arm storing the value of the line whatever the peak so far
parse_line_last_rss(ps, line) ==
    CASE line.first = "" -> POk(ps)
      [] line.first = "s" ->
            IF Len(line.toks) < 1 THEN PErr(ps, "InvalidFormat")
            ELSE POk([ps EXCEPT !.data.strings =
                         Append(@, Suffix(line, FromHex(line.toks[1])))])
      [] line.first = "t" ->
            IF Len(line.toks) < 2 THEN PErr(ps, "InvalidFormat")
            ELSE POk([ps EXCEPT !.data.traces =
                         Append(@, [ip_idx |-> FromHex(line.toks[1]),
                                    parent_idx |-> FromHex(line.toks[2])])])
      [] line.first = "i" -> parse_instruction(ps, line)
      [] line.first = "a" -> parse_trace_alloc(ps, line)
      [] line.first = "+" -> parse_alloc(ps, line)
      [] line.first = "-" -> parse_free(ps, line)
      [] line.first = "c" ->
            IF Len(line.toks) < 1 THEN PErr(ps, "InvalidFormat")
            ELSE POk([ps EXCEPT !.data.duration = FromHex(line.toks[1])])
      [] line.first = "R" ->
            IF Len(line.toks) < 1 THEN PErr(ps, "InvalidFormat")
            ELSE LET rss == FromHex(line.toks[1]) IN
                 POk([ps EXCEPT !.data.peak_rss = rss])
      [] line.first = "I" ->
            IF Len(line.toks) < 2 THEN PErr(ps, "InvalidFormat")
            ELSE POk([ps EXCEPT !.data.page_size = FromHex(line.toks[1]),
                                !.data.pages = FromHex(line.toks[2])])
      [] OTHER -> POk(ps)

parse_line(ps, line) ==
    CASE line.first = "" -> POk(ps)
      [] line.first = "s" ->
            IF Len(line.toks) < 1 THEN PErr(ps, "InvalidFormat")
            ELSE POk([ps EXCEPT !.data.strings =
                         Append(@, Suffix(line, FromHex(line.toks[1])))])
      [] line.first = "t" ->
            IF Len(line.toks) < 2 THEN PErr(ps, "InvalidFormat")
            ELSE POk([ps EXCEPT !.data.traces =
                         Append(@, [ip_idx |-> FromHex(line.toks[1]),
                                    parent_idx |-> FromHex(line.toks[2])])])
      [] line.first = "i" -> parse_instruction(ps, line)
      [] line.first = "a" -> parse_trace_alloc(ps, line)
      [] line.first = "+" -> parse_alloc(ps, line)
      [] line.first = "-" -> parse_free(ps, line)
      [] line.first = "c" ->
            IF Len(line.toks) < 1 THEN PErr(ps, "InvalidFormat")
            ELSE POk([ps EXCEPT !.data.duration = FromHex(line.toks[1])])
      [] line.first = "R" ->
            IF Len(line.toks) < 1 THEN PErr(ps, "InvalidFormat")
            ELSE LET rss == FromHex(line.toks[1]) IN
                 POk([ps EXCEPT !.data.peak_rss = IF rss > @ THEN rss ELSE @])
      [] line.first = "I" ->
            IF Len(line.toks) < 2 THEN PErr(ps, "InvalidFormat")
            ELSE POk([ps EXCEPT !.data.page_size = FromHex(line.toks[1]),
                                !.data.pages = FromHex(line.toks[2])])
      [] OTHER -> POk(ps)


(***************************************************************************)
(* Inputs                                                                  *)
(***************************************************************************)
NoEnv == [loader_ok |-> FALSE, found |-> <<>>, symbol |-> "sym"]

ImageNames == {"bin"}
ImageStarts == {0, 16}
ImageSizes == {0, 16}
Ips == {16, 40, 48}
Locations == {Location("f", None, None), Location("g", Some("a.rs"), Some(7))}

RECURSIVE SeqsUpTo(_, _)
SeqsUpTo(S, n) ==
    IF n = 0 THEN {<<>>}
    ELSE LET shorter == SeqsUpTo(S, n - 1) IN
         shorter \cup {Append(q, x) : q \in shorter, x \in S}

Founds == SeqsUpTo(Locations, MaxFrames)

ChildRecords == {RecVersion(1), RecDuration(5), RecRSS(4096)}
ExitStatuses == {0, 1}

(***************************************************************************)
(* State after construction                                                *)
(***************************************************************************)
Init ==
    /\ interp = InterpreterNew
    /\ exec = "running"
    /\ history = <<>>
    /\ parser = ParserNew
    /\ pos = 0
    /\ presult = "running"
    /\ seen = [underflow |-> FALSE, max_leaked |-> 0]
    /\ child = [pc |-> "running", status |-> 0, written |-> 0, sent |-> <<>>,
                handled_at_exit |-> 0]
    /\ pipe = [data |-> <<>>, open |-> TRUE]
    /\ rd = [reader |-> FALSE, pc |-> "try_wait"]
    /\ ptab = EmptyMap
    /\ pmap = EmptyMap
    /\ ptaken = [ops |-> 0, ptr |-> 0, res |-> None, expected |-> None]
    /\ written = <<>>
    /\ resolver = ResolverNew
    /\ trace_file = <<>>
    /\ lookups = [calls |-> 0, first |-> EmptyMap, hit |-> EmptyMap,
                  last |-> [ip |-> 0, res |-> None, repeated |-> FALSE]]
    /\ wire = [bytes |-> <<>>, open |-> TRUE, frames |-> 0, sent |-> <<>>,
               framed |-> <<>>, foreign |-> FALSE, got |-> <<>>,
               last_input |-> <<>>, pc |-> "reading"]

(***************************************************************************)
(* Interpreter::exec: one turn of `while let Some(item) = exec.next()`     *)
(* with the record the stream yields, and the end of the stream            *)
(***************************************************************************)
Deliver(record, env) ==
    LET r == handle_record(interp, record, env) IN
    /\ interp' = r.it
    /\ history' = Append(history, [record |-> record, env |-> env])
    /\ exec' = IF r.err = "" THEN "running" ELSE r.err
    /\ written' = IF r.written = None THEN written
                  ELSE Append(written, r.written[1])

StreamEnd ==
    /\ interp' = write_comments(interp)
    /\ exec' = "Ok"
    /\ UNCHANGED <<history, written>>

OnlyInterp == UNCHANGED <<parser, pos, presult, seen, child, pipe, rd,
                          ptab, pmap, ptaken,
                          resolver, lookups, trace_file, wire>>

ExecAlloc ==
    /\ exec = "running" /\ Len(history) < MaxRecords
    /\ \E ptr \in Ptrs, size \in Sizes, parent_idx \in Parents :
          Deliver(RecAlloc(ptr, size, parent_idx), NoEnv)
    /\ OnlyInterp

ExecFree ==
    /\ exec = "running" /\ Len(history) < MaxRecords
    /\ \E ptr \in Ptrs : Deliver(RecFree(ptr), NoEnv)
    /\ OnlyInterp

ExecImage ==
    /\ exec = "running" /\ Len(history) < MaxSymRecords
    /\ \E name \in ImageNames, start \in ImageStarts, size \in ImageSizes,
          loader_ok \in BOOLEAN :
          Deliver(RecImage(name, start, size),
                  [NoEnv EXCEPT !.loader_ok = loader_ok])
    /\ OnlyInterp

ExecTrace ==
    /\ exec = "running" /\ Len(history) < MaxSymRecords
    /\ \E ip \in Ips, found \in Founds :
          Deliver(RecTrace(ip, 0), [NoEnv EXCEPT !.found = found])
    /\ OnlyInterp

ExecEnd ==
    /\ exec = "running"
    /\ StreamEnd
    /\ OnlyInterp

(***************************************************************************)
(* Parser::parse_file on the file the Interpreter wrote                    *)
(***************************************************************************)
OnlyParser == UNCHANGED <<interp, exec, history, child, pipe, rd, ptab, pmap,
                          ptaken, written,
                          resolver, lookups, trace_file, wire>>

ParseLine ==
    /\ exec # "running" /\ presult = "running" /\ pos < Len(interp.output)
    /\ LET r == parse_line(parser, interp.output[pos + 1]) IN
       IF r.underflow
       THEN \* the subtraction panics when the build checks overflow and
            \* wraps when it does not
            \E overflow_checks \in BOOLEAN :
               /\ presult' = IF overflow_checks THEN "panic" ELSE "running"
               /\ parser' = IF overflow_checks THEN parser ELSE r.ps
               /\ pos' = IF overflow_checks THEN pos ELSE pos + 1
               /\ seen' = [underflow |-> TRUE,
                           max_leaked |->
                               Max(seen.max_leaked, parser'.data.total.leaked)]
       ELSE IF r.err # ""
       THEN presult' = r.err /\ UNCHANGED <<parser, pos, seen>>
       ELSE /\ parser' = r.ps
            /\ pos' = pos + 1
            /\ presult' = "running"
            /\ seen' = [seen EXCEPT !.max_leaked =
                           Max(@, r.ps.data.total.leaked)]
    /\ OnlyParser

ParseEnd ==
    /\ exec # "running" /\ presult = "running" /\ pos = Len(interp.output)
    /\ presult' = "Ok"
    /\ UNCHANGED <<parser, pos, seen>>
    /\ OnlyParser

(***************************************************************************)
(* The child process, the FIFO and ExecResult::next                        *)
(***************************************************************************)
ChildWrite ==
    /\ child.pc = "running" /\ child.written < MaxChildRecords
    /\ \E record \in ChildRecords :
          /\ pipe' = [pipe EXCEPT !.data = Append(@, record)]
          /\ child' = [child EXCEPT !.written = @ + 1,
                                    !.sent = Append(@, record)]
    /\ UNCHANGED <<interp, exec, history, parser, pos, presult, seen, rd,
                   ptab, pmap, ptaken, written,
                   resolver, lookups, trace_file, wire>>

\* the process ends: its end of the FIFO is closed and its status is there
\* for try_wait
ChildExit ==
    /\ child.pc = "running"
    /\ \E status \in ExitStatuses :
          child' = [child EXCEPT !.pc = "exited", !.status = status,
                                 !.handled_at_exit = Len(history)]
    /\ pipe' = [pipe EXCEPT !.open = FALSE]
    /\ UNCHANGED <<interp, exec, history, parser, pos, presult, seen, rd,
                   ptab, pmap, ptaken, written,
                   resolver, lookups, trace_file, wire>>

\* next(), reader None: open the FIFO and loop
NextOpen ==
    /\ exec = "running" /\ ~rd.reader
    /\ rd' = [rd EXCEPT !.reader = TRUE]
    /\ UNCHANGED <<interp, exec, history, parser, pos, presult, seen, child,
                   pipe, ptab, pmap, ptaken, written,
                   resolver, lookups, trace_file, wire>>

\* next() taking the exit of the child, whatever its status, as the end of
\* the stream
NextTryWait_end_on_exit ==
    /\ exec = "running" /\ rd.reader /\ rd.pc = "try_wait"
    /\ IF child.pc = "exited" /\ child.status # 0
       THEN exec' = "CmdFailed" /\ rd' = rd /\ interp' = interp
       ELSE IF child.pc = "exited"
       THEN exec' = "Ok" /\ rd' = rd /\ interp' = write_comments(interp)
       ELSE exec' = exec /\ rd' = [rd EXCEPT !.pc = "read_record"]
            /\ interp' = interp
    /\ UNCHANGED <<history, parser, pos, presult, seen, child, pipe,
                   ptab, pmap, ptaken, written,
                   resolver, lookups, trace_file, wire>>

\* next(), reader Some: child.try_wait() and the test of the exit status
NextTryWait ==
    /\ exec = "running" /\ rd.reader /\ rd.pc = "try_wait"
    /\ IF child.pc = "exited" /\ child.status # 0
       THEN exec' = "CmdFailed" /\ rd' = rd
       ELSE exec' = exec /\ rd' = [rd EXCEPT !.pc = "read_record"]
    /\ UNCHANGED <<interp, history, parser, pos, presult, seen, child, pipe,
                   ptab, pmap, ptaken, written,
                   resolver, lookups, trace_file, wire>>

\* next(): reader.read_record(), which blocks while the FIFO is empty and
\* open; then the body of exec's loop, or its end
NextReadRecord ==
    /\ exec = "running" /\ rd.reader /\ rd.pc = "read_record"
    /\ pipe.data # <<>> \/ ~pipe.open
    /\ IF pipe.data # <<>>
       THEN /\ Deliver(Head(pipe.data), NoEnv)
            /\ pipe' = [pipe EXCEPT !.data = Tail(@)]
       ELSE /\ StreamEnd
            /\ pipe' = pipe
    /\ rd' = [rd EXCEPT !.pc = "try_wait"]
    /\ UNCHANGED <<parser, pos, presult, seen, child, ptab, pmap, ptaken,
                   resolver, lookups, trace_file, wire>>

(***************************************************************************)
(* The pointer table alone, beside a plain map                             *)
(***************************************************************************)
MapGet(m, k) == IF k \in DOMAIN m THEN Some(m[k]) ELSE None

TableAdd ==
    /\ ptaken.ops < MaxPtrOps
    /\ \E ptr \in TablePtrs, idx \in TableIdx :
          /\ ptab' = add_pointer(ptab, ptr, idx)
          /\ pmap' = MapPut(pmap, ptr, idx)
    /\ ptaken' = [ptaken EXCEPT !.ops = @ + 1]
    /\ UNCHANGED <<interp, exec, history, parser, pos, presult, seen, child,
                   pipe, rd, written,
                   resolver, lookups, trace_file, wire>>

TableTake ==
    /\ ptaken.ops < MaxPtrOps
    /\ \E ptr \in TablePtrs :
          LET taken == take_pointer(ptab, ptr) IN
          /\ ptab' = taken.pointers
          /\ pmap' = MapDel(pmap, ptr)
          /\ ptaken' = [ops |-> ptaken.ops + 1, ptr |-> ptr,
                        res |-> taken.res, expected |-> MapGet(pmap, ptr)]
    /\ UNCHANGED <<interp, exec, history, parser, pos, presult, seen, child,
                   pipe, rd, written,
                   resolver, lookups, trace_file, wire>>

(***************************************************************************)
(* The Resolver alone: add_module and lookup in any order                  *)
(***************************************************************************)
ModuleIds == {1, 2}
ModuleStarts == {16, 32}
ModuleSizes == {32}
LookupIps == {16, 40}
\* the loader's answers on the bare Resolver: no location, or one
LookupFounds == SeqsUpTo(Locations, 1)

OnlyResolver == UNCHANGED <<interp, exec, history, parser, pos, presult, seen,
                            child, pipe, rd, ptab, pmap, ptaken, written,
                            trace_file, wire>>

ResolverAddModule ==
    /\ Len(resolver.modules) < MaxModules
    /\ \E id \in ModuleIds, file_path \in ImageNames,
          start_address \in ModuleStarts, size \in ModuleSizes :
          resolver' = Resolver_add_module(resolver, id, file_path,
                                          start_address, size, TRUE).rs
    /\ UNCHANGED lookups
    /\ OnlyResolver

ResolverLookup ==
    /\ lookups.calls < MaxLookups
    /\ \E ip \in LookupIps, found \in LookupFounds :
          LET r == Resolver_lookup(resolver, ip, found, NoEnv.symbol) IN
          /\ resolver' = r.rs
          /\ lookups' =
                [calls |-> lookups.calls + 1,
                 first |-> IF ip \in DOMAIN lookups.first THEN lookups.first
                           ELSE MapPut(lookups.first, ip, r.res),
                 hit |-> IF ip \in DOMAIN lookups.hit \/ r.res = None
                         THEN lookups.hit
                         ELSE MapPut(lookups.hit, ip, r.res[1]),
                 last |-> [ip |-> ip, res |-> r.res,
                           repeated |-> ip \in DOMAIN lookups.first]]
    /\ OnlyResolver

(***************************************************************************)
(* Parser::parse_file on a trace file that was not written by the          *)
(* Interpreter                                                             *)
(***************************************************************************)
FileLines ==
    {Output_write_trace_alloc(8, 1), Output_write_trace_alloc(16, 2),
     Output_write_trace_alloc(8, 2),
     Output_write_alloc(0), Output_write_alloc(1),
     Output_write_free(0), Output_write_free(1)}

\* one turn of the loop of parse_file
FileLine ==
    /\ presult = "running" /\ Len(trace_file) < MaxFileLines
    /\ \E line \in FileLines :
          LET r == parse_line(parser, line) IN
          /\ trace_file' = Append(trace_file, line)
          /\ IF r.underflow
             THEN \E overflow_checks \in BOOLEAN :
                     /\ presult' = IF overflow_checks THEN "panic"
                                   ELSE "running"
                     /\ parser' = IF overflow_checks THEN parser ELSE r.ps
                     /\ pos' = IF overflow_checks THEN pos ELSE pos + 1
                     /\ seen' = [underflow |-> TRUE,
                                 max_leaked |->
                                     Max(seen.max_leaked,
                                         parser'.data.total.leaked)]
             ELSE IF r.err # ""
             THEN presult' = r.err /\ UNCHANGED <<parser, pos, seen>>
             ELSE /\ parser' = r.ps
                  /\ pos' = pos + 1
                  /\ presult' = "running"
                  /\ seen' = [seen EXCEPT !.max_leaked =
                                 Max(@, r.ps.data.total.leaked)]
    /\ UNCHANGED <<interp, exec, history, child, pipe, rd, ptab, pmap, ptaken,
                   written, resolver, lookups, wire>>

\* the file has no more lines
FileEnd ==
    /\ presult = "running" /\ trace_file # <<>>
    /\ presult' = "Ok"
    /\ UNCHANGED <<interp, exec, history, parser, pos, seen, child, pipe, rd,
                   ptab, pmap, ptaken, written, resolver, lookups, trace_file,
                   wire>>

(***************************************************************************)
(* Interpreter::exec on streams of every kind of record                    *)
(***************************************************************************)
MetaRecords ==
    {RecVersion(1), RecExec("cmd"), RecPageInfo(4096, 8), RecDuration(5),
     RecDuration(9), RecRSS(4096), RecRSS(8192)}
MixPtrs == {4}
MixIps == {16, 40}
MixFounds == {<<>>, <<Location("g", Some("a.rs"), Some(7))>>}

\* the records the stream may yield, each with what the loader answers
MixInputs ==
    {[record |-> record, env |-> NoEnv] :
        record \in MetaRecords
                   \cup {RecAlloc(ptr, size, 1) :
                            ptr \in MixPtrs, size \in Sizes}
                   \cup {RecFree(ptr) : ptr \in MixPtrs}}
    \cup {[record |-> RecImage("bin", 16, 16),
           env |-> [NoEnv EXCEPT !.loader_ok = loader_ok]] :
             loader_ok \in BOOLEAN}
    \cup {[record |-> RecTrace(ip, 0), env |-> [NoEnv EXCEPT !.found = found]] :
             ip \in MixIps, found \in MixFounds}

MixRecord ==
    /\ exec = "running" /\ Len(history) < MaxMixRecords
    /\ \E input \in MixInputs : Deliver(input.record, input.env)
    /\ OnlyInterp

(***************************************************************************)
(* A PipeWriter and a PipeReader on the two ends of the FIFO               *)
(***************************************************************************)
\* a string of n characters
RECURSIVE Chars(_)
Chars(n) ==
    IF n = 0 THEN ""
    ELSE LET half == Chars(n \div 2) IN
         half \o half \o (IF n % 2 = 1 THEN "x" ELSE "")

\* command lines whose Exec record serializes to 1024, 1025 and 65536 bytes
LongCommands == {Chars(1012), Chars(1013), Chars(65524)}

WireRecords ==
    {RecVersion(1), RecExec("cmd"), RecImage("bin", 16, 16), RecAlloc(4, 8, 1),
     RecFree(4), RecDuration(5)}
    \cup {RecExec(cmd) : cmd \in LongCommands}

\* frames write_record did not write: an empty payload, an unknown variant
\* index, a Version cut short, a Free followed by two more bytes
CorruptFrames ==
    {<<0, 0>>, <<4, 0, 9, 0, 0, 0>>, <<5, 0, 0, 0, 0, 0, 1>>,
     <<14, 0, 6, 0, 0, 0, 4, 0, 0, 0, 0, 0, 0, 0, 7, 7>>}

\* bytes of the stream lost when the write end closes
CutBytes == {0, 1, 7}

OnlyWire == UNCHANGED <<interp, exec, history, parser, pos, presult, seen,
                        child, pipe, rd, ptab, pmap, ptaken, written,
                        resolver, lookups, trace_file>>

\* the writing process calls write_record
WireWrite ==
    /\ wire.open /\ wire.frames < MaxWireFrames
    /\ \E record \in WireRecords :
          LET bytes == write_record(<<>>, record) IN
          wire' = [wire EXCEPT
                      !.bytes = write_record(@, record),
                      !.frames = @ + 1,
                      !.sent = Append(@, record),
                      !.framed = Append(@, [len |-> FromLE(Take(bytes, 2).head),
                                            size |-> ByteLen(bytes) - 2])]
    /\ OnlyWire

\* bytes reach the FIFO that write_record did not frame
WireCorrupt ==
    /\ wire.open /\ wire.frames < MaxWireFrames
    /\ \E frame \in CorruptFrames :
          wire' = [wire EXCEPT
                      !.bytes =
                          @ \o [i \in 1..Len(frame) |-> LeInt(frame[i], 1)],
                      !.frames = @ + 1,
                      !.foreign = TRUE]
    /\ OnlyWire

\* the write end closes, the last bytes written possibly lost
WireClose ==
    /\ wire.open
    /\ \E cut \in CutBytes :
          /\ cut <= ByteLen(wire.bytes)
          /\ wire' = [wire EXCEPT
                         !.open = FALSE,
                         !.bytes = Take(@, ByteLen(@) - cut).head,
                         !.foreign = @ \/ cut > 0]
    /\ OnlyWire

\* read_exact has the bytes read_record asks for, or the stream has ended
ReadReady ==
    \/ ~wire.open
    \/ /\ ByteLen(wire.bytes) >= 2
       /\ LET length_buf == Take(wire.bytes, 2)
              len == FromLE(length_buf.head)
          IN len > BUF_LEN \/ ByteLen(length_buf.rest) >= len

\* the reading process calls read_record, until it gets no record
WireRead ==
    /\ wire.pc = "reading" /\ ReadReady
    /\ LET r == read_record(wire.bytes) IN
       wire' = [wire EXCEPT
                   !.bytes = r.rest,
                   !.got = Append(@, r.out),
                   !.last_input = wire.bytes,
                   !.pc = IF r.out.kind = "Ok" THEN "reading" ELSE "stopped"]
    /\ OnlyWire

(***************************************************************************)
(* Specifications                                                          *)
(***************************************************************************)
\* allocation records through the Interpreter, its output through the Parser
Next == ExecAlloc \/ ExecFree \/ ExecEnd \/ ParseLine \/ ParseEnd
Spec == Init /\ [][Next]_vars

\* image and trace records through the Interpreter and the Resolver, the
\* output through the Parser
NextSym == ExecImage \/ ExecTrace \/ ExecEnd \/ ParseLine \/ ParseEnd
SpecSym == Init /\ [][NextSym]_vars

\* the child process beside the reading loop of Interpreter::exec
NextExec == ChildWrite \/ ChildExit \/ NextOpen \/ NextTryWait \/ NextReadRecord
SpecExec == Init /\ [][NextExec]_vars

\* add_pointer and take_pointer in any order
NextPtr == TableAdd \/ TableTake
SpecPtr == Init /\ [][NextPtr]_vars

\* add_module and lookup in any order
NextRes == ResolverAddModule \/ ResolverLookup
SpecRes == Init /\ [][NextRes]_vars

\* the Parser on trace files of `a`, `+` and `-` lines in any order
NextFile == FileLine \/ FileEnd
SpecFile == Init /\ [][NextFile]_vars

\* records of every kind through the Interpreter, its output through the
\* Parser
NextMix == MixRecord \/ ExecEnd \/ ParseLine \/ ParseEnd
SpecMix == Init /\ [][NextMix]_vars

\* a PipeWriter and a PipeReader on one FIFO
NextWire == WireWrite \/ WireCorrupt \/ WireClose \/ WireRead
SpecWire == Init /\ [][NextWire]_vars


(***************************************************************************)
(* What a record stream means, read off the records alone: the bytes of    *)
(* the allocations not freed, and the frees that directly follow the       *)
(* allocation of their pointer                                             *)
(***************************************************************************)
Front(h) == SubSeq(h, 1, Len(h) - 1)

RECURSIVE Ref(_)
Ref(h) ==
    IF h = <<>>
    THEN [live |-> EmptyMap, leaked |-> 0, temporary |-> 0, prev |-> None]
    ELSE LET r == Ref(Front(h))
             rec == h[Len(h)].record
         IN CASE rec.tag = "Alloc" ->
                   [live |-> MapPut(r.live, rec.ptr, rec.size),
                    leaked |-> r.leaked + rec.size,
                    temporary |-> r.temporary,
                    prev |-> Some(rec)]
              [] rec.tag = "Free" ->
                   [live |-> MapDel(r.live, rec.ptr),
                    leaked |-> IF rec.ptr \in DOMAIN r.live
                               THEN r.leaked - r.live[rec.ptr] ELSE r.leaked,
                    temporary |->
                        IF /\ r.prev # None
                           /\ r.prev[1].tag = "Alloc"
                           /\ r.prev[1].ptr = rec.ptr
                        THEN r.temporary + 1 ELSE r.temporary,
                    prev |-> Some(rec)]
              [] OTHER -> r

\* every Free{ptr} has an Alloc of the same ptr before it
Balanced(h) ==
    \A i \in 1..Len(h) :
        h[i].record.tag = "Free" =>
            \E j \in 1..(i - 1) :
                /\ h[j].record.tag = "Alloc"
                /\ h[j].record.ptr = h[i].record.ptr

Records(h) == [i \in 1..Len(h) |-> h[i].record]

HasLine(first) ==
    \E i \in 1..Len(interp.output) : interp.output[i].first = first

Total(allocations, temporary, leaked, peak) ==
    [allocations |-> allocations, temporary |-> temporary, leaked |-> leaked,
     peak |-> peak]

\* ptr is an entry of the two-level table
PtrInTable(pointers, ptr) ==
    \E big \in DOMAIN pointers :
        \E i \in 1..Len(pointers[big].small_ptr_parts) :
            big * PAGE_SIZE + pointers[big].small_ptr_parts[i] = ptr

(***************************************************************************)
(* Claims                                                                  *)
(***************************************************************************)

\* C1: for a stream in which every Free follows an Alloc of its pointer,
\* once the Interpreter has written the trace and the Parser has read it,
\* total.leaked is the sum of the sizes of the allocations never freed (an
\* allocation whose pointer was allocated again before a free included).
C1_Conservation ==
    (exec = "Ok" /\ presult = "Ok" /\ Balanced(history)) =>
        parser.data.total.leaked = Ref(history).leaked

C1_Witness ==
    /\ exec = "Ok" /\ presult = "Ok"
    /\ Records(history) = <<RecAlloc(4, 8, 1), RecAlloc(4, 16, 1), RecFree(4)>>
    /\ parser.data.total.leaked = 8

\* C2: after parsing the Interpreter's output, total.temporary is the number
\* of Free records whose pointer is that of the Alloc directly before them
\* (no Alloc or Free between).
C2_ParserTemporary ==
    (exec = "Ok" /\ presult = "Ok") =>
        parser.data.total.temporary = Ref(history).temporary

\* C3: the Interpreter counts a Free as temporary exactly when its pointer
\* is that of the Alloc directly before it (no Alloc or Free between), for
\* every pointer value, 0 included.
C3_InterpreterTemporary ==
    interp.stats.tmp_allocations = Ref(history).temporary

\* C4: a child that exits with a non-zero status makes exec return
\* CmdFailed; exec never returns Ok for it.
C4_ExitReporting ==
    (child.pc = "exited" /\ child.status # 0 /\ exec # "running") =>
        exec = "CmdFailed"

\* C5: the Resolver maps an ip to a module only when the ip lies in
\* [start_address, start_address + size) of an Image whose registration
\* succeeded, and then to that Image's module.
C5_ModuleRange ==
    \A ip \in DOMAIN interp.resolver.cached :
        \E k \in 1..Len(history) :
            /\ history[k].record.tag = "Image"
            /\ history[k].env.loader_ok
            /\ history[k].record.start_address <= ip
            /\ ip < history[k].record.start_address + history[k].record.size
            /\ interp.resolver.cached[ip].module_id =
                   IndexOf(interp.strings, history[k].record.name)

\* C6: every `i` line the Interpreter writes is read back by the Parser as
\* one InstructionPointer whose frame followed by inlined are the frames
\* written, same shapes, values and order; no such line is rejected.
C6_InstructionRoundTrip ==
    /\ presult # "InvalidFormat"
    /\ presult = "Ok" =>
          /\ Len(parser.data.instruction_pointers) = Len(written)
          /\ \A k \in 1..Len(written) :
                <<parser.data.instruction_pointers[k].frame>>
                    \o parser.data.instruction_pointers[k].inlined
                = written[k]

\* C7: after every parsed line total.peak is the largest value total.leaked
\* has had over the lines parsed so far.
C7_PeakIsMax == parser.data.total.peak = seen.max_leaked

C7_Witness ==
    /\ presult = "Ok"
    /\ parser.data.total.peak > parser.data.total.leaked
    /\ parser.data.total.leaked > 0

\* a step that handles Free{ptr} for a ptr the pointer table does not hold
FreeUnknownStep ==
    /\ Len(history') = Len(history) + 1
    /\ history'[Len(history')].record.tag = "Free"
    /\ ~PtrInTable(interp.pointers, history'[Len(history')].record.ptr)

\* the stream Alloc(A,8), Free(Z), written and parsed
FreeUnknownScenario ==
    /\ exec = "Ok" /\ presult = "Ok" /\ Len(history) = 2
    /\ history[1].record.tag = "Alloc" /\ history[1].record.size = 8
    /\ history[2].record.tag = "Free"
    /\ history[2].record.ptr # history[1].record.ptr

\* C8: handling Free{ptr} for a ptr that is not in the pointer table writes
\* no line, leaves the counters, the pointer table and the interning tables
\* as they were and sets last_ptr to 0; and Alloc(A,8), Free(Z) parses to
\* total = {1,0,8,8} with no `-` line in the trace.
C8_FreeUnknown ==
    /\ [][FreeUnknownStep =>
            /\ interp'.output = interp.output
            /\ interp'.stats = interp.stats
            /\ interp'.pointers = interp.pointers
            /\ interp'.strings = interp.strings
            /\ interp'.frames = interp.frames
            /\ interp'.allocation_info = interp.allocation_info
            /\ interp'.last_ptr = 0]_vars
    /\ [](FreeUnknownScenario =>
            /\ parser.data.total = Total(1, 0, 8, 8)
            /\ ~HasLine("-"))

C8_Witness ==
    /\ FreeUnknownScenario
    /\ history[1].record.ptr = 4
    /\ interp.last_ptr = 0
    /\ interp.stats.leaked_allocations = 1

\* C9: the split-pointer table answers as the plain map ptr -> index does:
\* take_pointer(p) returns the index last inserted for p when p is live and
\* None otherwise, and removes p alone.
C9_PlainMap ==
    /\ ptaken.res = ptaken.expected
    /\ \A p \in TablePtrs : take_pointer(ptab, p).res = MapGet(pmap, p)
    /\ \A p \in TablePtrs : PtrInTable(ptab, p) <=> p \in DOMAIN pmap

\* 0x10000 freed while 0x14000 (another bucket) and 4 (same low part) live
C9_Witness ==
    /\ ptaken.ptr = 65536 /\ ptaken.res # None
    /\ 81920 \in DOMAIN pmap /\ 4 \in DOMAIN pmap /\ 0 \in DOMAIN pmap

\* C10: while the Parser reads the Interpreter's output no subtraction of
\* leaked bytes underflows, and after every line
\* total.peak >= total.leaked >= 0 and a.peak >= a.leaked >= 0 for every
\* entry a of allocations.
C10_Accounting ==
    /\ ~seen.underflow
    /\ presult # "panic"
    /\ parser.data.total.peak >= parser.data.total.leaked
    /\ parser.data.total.leaked >= 0
    /\ \A a \in 1..Len(parser.data.allocations) :
          /\ parser.data.allocations[a].data.peak
                 >= parser.data.allocations[a].data.leaked
          /\ parser.data.allocations[a].data.leaked >= 0

C10_Witness ==
    /\ presult = "Ok"
    /\ HasLine("-")
    /\ Len(parser.data.allocations) = 2
    /\ \E a \in 1..2 : parser.data.allocations[a].data.leaked = 0
                       /\ parser.data.allocations[a].data.peak > 0
    /\ parser.data.total.leaked > 0

\* the lines of the trace that start with `first`, in order
RECURSIVE LinesOf(_, _)
LinesOf(output, first) ==
    IF output = <<>> THEN <<>>
    ELSE LET rest == LinesOf(Front(output), first)
             line == output[Len(output)]
         IN IF line.first = first THEN Append(rest, line) ELSE rest

\* the records of the stream with the given tag, in order
RECURSIVE RecordsOf(_, _)
RecordsOf(h, tag) ==
    IF h = <<>> THEN <<>>
    ELSE LET rest == RecordsOf(Front(h), tag)
             rec == h[Len(h)].record
         IN IF rec.tag = tag THEN Append(rest, rec) ELSE rest

\* C11: once the Parser has read the whole trace the Interpreter wrote,
\* total.allocations is the number of `+` lines, which is the number of
\* Alloc records handled, and total.temporary <= total.allocations.
C11_CountRoundTrip ==
    (exec = "Ok" /\ presult = "Ok") =>
        /\ parser.data.total.allocations = Len(LinesOf(interp.output, "+"))
        /\ Len(LinesOf(interp.output, "+")) = Len(RecordsOf(history, "Alloc"))
        /\ parser.data.total.temporary <= parser.data.total.allocations

\* three allocations, one of them below the peak, and a temporary one
C11_Witness ==
    /\ exec = "Ok" /\ presult = "Ok"
    /\ Len(RecordsOf(history, "Alloc")) = 3
    /\ Len(RecordsOf(history, "Free")) = 1
    /\ parser.data.total.allocations = 3
    /\ parser.data.total.temporary = 1
    /\ parser.data.total.leaked < parser.data.total.peak

\* the lines of the trace whose first token is in `firsts`, in order
RECURSIVE LinesIn(_, _)
LinesIn(output, firsts) ==
    IF output = <<>> THEN <<>>
    ELSE LET rest == LinesIn(Front(output), firsts)
             line == output[Len(output)]
         IN IF line.first \in firsts THEN Append(rest, line) ELSE rest

\* the distinct (size, parent_idx) pairs of the Alloc records, in the order
\* of their first occurrence
RECURSIVE Signatures(_)
Signatures(h) ==
    IF h = <<>> THEN <<>>
    ELSE LET rest == Signatures(Front(h))
             rec == h[Len(h)].record
             sig == <<rec.size, rec.parent_idx>>
         IN IF rec.tag = "Alloc" /\ IndexOf(rest, sig) = 0
            THEN Append(rest, sig) ELSE rest

\* the `a` and `+` lines signature dedup asks for: an `a` line at the first
\* Alloc of a pair, and for every Alloc a `+` line with the pair's index
RECURSIVE SignatureLines(_)
SignatureLines(h) ==
    IF h = <<>> THEN <<>>
    ELSE LET rest == SignatureLines(Front(h))
             rec == h[Len(h)].record
             before == Signatures(Front(h))
             p == IndexOf(before, <<rec.size, rec.parent_idx>>)
         IN IF rec.tag # "Alloc" THEN rest
            ELSE IF p = 0
            THEN rest \o <<Line("a", <<ToHex(rec.size), ToHex(rec.parent_idx)>>,
                                "")>>
                      \o <<Line("+", <<ToHex(Len(before))>>, "")>>
            ELSE Append(rest, Line("+", <<ToHex(p - 1)>>, ""))

\* C14: each distinct (size, parent_idx) pair of the Alloc records has
\* exactly one `a` line, written at its first occurrence; add_alloc answers
\* the same 0-based index for the pair ever after; and every Alloc record,
\* new pair or not, has exactly one `+ idx` line.  (Stated on the states of
\* the Interpreter's run and its end: reading the trace afterwards changes
\* neither the records nor the trace.)
C14_SignatureDedup ==
    pos = 0 =>
        LET signatures == Signatures(history) IN
        /\ LinesIn(interp.output, {"a", "+"}) = SignatureLines(history)
        /\ Len(interp.allocation_info) = Len(signatures)
        /\ \A k \in 1..Len(signatures) :
              LET again == add_alloc(interp, signatures[k][1],
                                     signatures[k][2])
              IN /\ again.idx = k - 1
                 /\ again.it = interp

\* two pairs, the first one allocated again after the second
C14_Witness ==
    /\ exec = "Ok"
    /\ Len(Signatures(history)) = 2
    /\ Len(LinesOf(interp.output, "a")) = 2
    /\ Len(LinesOf(interp.output, "+")) = 3
    /\ interp.output[Len(interp.output) - 3] = Output_write_alloc(0)

\* the Trace records that are the first of their ip, in order, each with
\* what the loader answered
RECURSIVE FirstTraces(_)
FirstTraces(h) ==
    IF h = <<>> THEN <<>>
    ELSE LET rest == FirstTraces(Front(h))
             e == h[Len(h)]
         IN IF /\ e.record.tag = "Trace"
               /\ \A i \in 1..Len(rest) : rest[i].record.ip # e.record.ip
            THEN Append(rest, e) ELSE rest

\* the locations Module::lookup yields from the loader's answer
LocationsOf(env) ==
    IF env.found = <<>> THEN <<Location(env.symbol, None, None)>> ELSE env.found

\* the frames of an `i` line whose names are the strings of the locations
NamesOf(frames, strings) ==
    [j \in 1..Len(frames) |->
        IF frames[j].kind = "Single"
        THEN Location(strings[frames[j].function_idx], None, None)
        ELSE Location(strings[frames[j].function_idx],
                      Some(strings[frames[j].file_idx]),
                      Some(frames[j].line_number))]

\* every id in the frames is the id of an interned string
IdsInterned(frames, strings) ==
    \A j \in 1..Len(frames) :
        /\ frames[j].function_idx \in 1..Len(strings)
        /\ frames[j].kind = "Multiple" => frames[j].file_idx \in 1..Len(strings)

\* C12: the Interpreter writes exactly one `s` line per distinct string, in
\* the order of interning; write_string answers for an interned value the
\* 1-based position of its `s` line, on every call, writing nothing; ids are
\* never 0 and an id once given is never given to another string.
C12_StringInterning ==
    /\ [][\A i \in 1..Len(interp.strings) :
              /\ Len(interp'.strings) >= i
              /\ interp'.strings[i] = interp.strings[i]]_vars
    /\ [](/\ LinesOf(interp.output, "s") =
                 [i \in 1..Len(interp.strings) |->
                     Output_write_string(interp.strings[i])]
          /\ \A i, j \in 1..Len(interp.strings) :
                 interp.strings[i] = interp.strings[j] => i = j
          /\ \A i \in 1..Len(interp.strings) :
                 LET again == write_string(interp, interp.strings[i]) IN
                 again.id = i /\ again.id # 0 /\ again.it = interp
          /\ \A k \in 1..Len(written) :
                 /\ IdsInterned(written[k], interp.strings)
                 /\ NamesOf(written[k], interp.strings) =
                        LocationsOf(FirstTraces(history)[k].env))

\* the same function name met at two ips: one `s` line, the same id in both
\* `i` lines
C12_Witness ==
    /\ exec = "Ok"
    /\ Len(written) = 2
    /\ written[1] = <<FrameSingle(2)>>
    /\ written[2] = <<FrameSingle(2), FrameMultiple(3, 4, 7)>>
    /\ Len(LinesOf(interp.output, "s")) = 4

\* the distinct ips of the Trace records, in the order of first occurrence
TraceIps(h) == [k \in 1..Len(FirstTraces(h)) |-> FirstTraces(h)[k].record.ip]

\* the `i` and `t` lines frame dedup asks for, an `i` line reduced to its ip:
\* at the first Trace of an ip its `i` line and then its `t` line, at a later
\* one the `t` line alone, with the ip's 1-based id
RECURSIVE FrameLines(_)
FrameLines(h) ==
    IF h = <<>> THEN <<>>
    ELSE LET rest == FrameLines(Front(h))
             rec == h[Len(h)].record
             before == TraceIps(Front(h))
             p == IndexOf(before, rec.ip)
         IN IF rec.tag # "Trace" THEN rest
            ELSE IF p = 0
            THEN rest \o <<Line("i", <<ToHex(rec.ip)>>, "")>>
                      \o <<Output_write_trace(Len(before) + 1, rec.parent_idx)>>
            ELSE Append(rest, Output_write_trace(p, rec.parent_idx))

\* a line of the trace with an `i` line reduced to its ip
IpOnly(line) ==
    IF line.first = "i" THEN Line("i", <<line.toks[1]>>, "") ELSE line

\* C13: in a run that ends without error each distinct ip of the Trace
\* records has exactly one `i` line, written at the first Trace of the ip
\* (right before that Trace's `t` line), and every `t` line of the ip, the
\* first and the later ones, carries the ip's 1-based id.
C13_FrameDedup ==
    exec = "Ok" =>
        LET lines == LinesIn(interp.output, {"i", "t"}) IN
        /\ [k \in 1..Len(lines) |-> IpOnly(lines[k])] = FrameLines(history)
        /\ interp.frames = TraceIps(history)
        /\ Len(LinesOf(interp.output, "i")) = Len(TraceIps(history))

\* ip 16 traced twice: one `i` line, two `t` lines with id 1
C13_Witness ==
    /\ exec = "Ok"
    /\ Len(RecordsOf(history, "Trace")) = 2
    /\ Len(LinesOf(interp.output, "i")) = 1
    /\ LinesOf(interp.output, "t") =
           <<Output_write_trace(1, 0), Output_write_trace(1, 0)>>

\* record k is a Trace whose ip lies outside [start, start + size) of every
\* Image before it whose registration succeeded
ResolverMiss(k) ==
    /\ history[k].record.tag = "Trace"
    /\ \A j \in 1..(k - 1) :
          (history[j].record.tag = "Image" /\ history[j].env.loader_ok) =>
              ~(/\ history[j].record.start_address <= history[k].record.ip
                /\ history[k].record.ip < history[j].record.start_address
                                              + history[j].record.size)

\* C16: a Trace whose ip lies outside [start, start + size) of every Image
\* registered with success (an ip inside an Image whose registration failed
\* included) ends the run with "ip locations not found": it is the last
\* record handled, it has no `i` and no `t` line, and the comment lines are
\* not written.
C16_ResolverMissFatal ==
    \A k \in 1..Len(history) :
        ResolverMiss(k) =>
            /\ k = Len(history)
            /\ exec = "ip locations not found"
            /\ Len(LinesOf(interp.output, "t")) =
                   Len(RecordsOf(history, "Trace")) - 1
            /\ \A i \in 1..Len(interp.output) :
                  interp.output[i].first = "i" =>
                      interp.output[i].toks[1] # ToHex(history[k].record.ip)
            /\ ~HasLine("#")

\* Image records before record m whose registration succeeded: as many as
\* the Resolver has ranges when record m is handled
RegisteredBefore(m) ==
    Cardinality({j \in 1..(m - 1) : /\ history[j].record.tag = "Image"
                                    /\ history[j].env.loader_ok})

\* the range of `modules` that answers for ip, by its position; 0 for none
RangeAt(modules, ip) ==
    LET hits == {i \in 1..Len(modules) :
                    modules[i].start <= ip /\ ip < modules[i].end}
    IN IF hits = {} THEN 0 ELSE CHOOSE i \in hits : \A j \in hits : j <= i

Min(a, b) == IF a <= b THEN a ELSE b

\* the registration that resolved the ip of Trace record m when it was
\* handled, by its position; 0 for none
ResolvedBy(m) ==
    RangeAt(SubSeq(interp.resolver.modules, 1,
                   Min(RegisteredBefore(m), Len(interp.resolver.modules))),
            history[m].record.ip)

\* C18: an Image record with size 0 is registered without error or crash,
\* and no ip traced afterwards is resolved to its module.
C18_ZeroSizeModule ==
    \A k \in 1..Len(history) :
        (/\ history[k].record.tag = "Image"
         /\ history[k].record.size = 0
         /\ history[k].env.loader_ok) =>
            /\ ~(k = Len(history) /\ exec = "panic")
            /\ \A m \in (k + 1)..Len(history) :
                  (/\ history[m].record.tag = "Trace"
                   /\ \A n \in 1..(m - 1) :
                         history[n].record.tag = "Trace" =>
                             history[n].record.ip # history[m].record.ip) =>
                      ResolvedBy(m) # RegisteredBefore(k) + 1

\* the distinct strings a stream makes the Interpreter intern: the names of
\* the Images and the names in the locations of each ip's first Trace
StringsOf(h) ==
    {h[k].record.name : k \in {j \in 1..Len(h) : h[j].record.tag = "Image"}}
    \cup UNION {
        LET locations == LocationsOf(FirstTraces(h)[k].env) IN
        {locations[j].function_name : j \in 1..Len(locations)}
        \cup {locations[j].file_name[1] :
                 j \in {i \in 1..Len(locations) :
                           locations[i].file_name # None}}
        : k \in 1..Len(FirstTraces(h))}

\* the three lines that end a trace
Trailer(h) ==
    <<Line("", <<>>, ""),
      Line("#", <<ToDec(Cardinality(StringsOf(h)))>>, "strings: "),
      Line("#", <<ToDec(Len(TraceIps(h)))>>, "ips: ")>>

\* C20: when the stream ends without error the Interpreter appends to the
\* lines of the records, in this order, an empty line, `# strings: N` with N
\* the number of distinct strings interned and `# ips: N` with N the number
\* of distinct ips; while records are still handled the trace has no empty
\* line and no comment line.
C20_Trailer ==
    /\ [][(exec = "running" /\ exec' = "Ok") =>
              interp'.output = interp.output \o Trailer(history)]_vars
    /\ [](exec # "Ok" => ~HasLine("") /\ ~HasLine("#"))
    /\ [](exec = "Ok" =>
              /\ Len(LinesIn(interp.output, {"", "#"})) = 3
              /\ SubSeq(interp.output, Len(interp.output) - 2,
                        Len(interp.output)) = Trailer(history))

\* a module name, a function and a file name, two ips
C20_Witness ==
    /\ exec = "Ok"
    /\ Len(interp.output) > 3
    /\ interp.output[Len(interp.output) - 1] =
           Line("#", <<<<3>>>>, "strings: ")
    /\ interp.output[Len(interp.output)] = Line("#", <<<<2>>>>, "ips: ")

C15_LookupIdempotent ==
    lookups.last.repeated =>
        lookups.last.res = lookups.first[lookups.last.ip]

\* C15 as amended: each call of lookup(ip) after the first call that found a
\* module returns a result equal by value to that call's result, whatever
\* add_module and lookup calls lie between.
C15_LookupStable ==
    /\ lookups.last.ip \in DOMAIN lookups.hit =>
          lookups.last.res = Some(lookups.hit[lookups.last.ip])
    /\ \A ip \in DOMAIN lookups.hit :
          \A found \in LookupFounds :
              Resolver_lookup(resolver, ip, found, NoEnv.symbol).res =
                  Some(lookups.hit[ip])

\* ip 40 looked up three times, found by the first call; the module that
\* holds it now is another one than the one that answered
C15_Witness ==
    /\ lookups.calls = 3
    /\ lookups.last.ip = 40 /\ lookups.last.repeated
    /\ lookups.first[40] # None
    /\ lookups.last.res = lookups.first[40]
    /\ RangeMap_get(resolver.modules, 40) # None
    /\ RangeMap_get(resolver.modules, 40)[1].id # lookups.last.res[1].module_id

\* a step of parse_file on a `+ IDX` or `- IDX` line whose IDX is not below
\* the number of `a` lines read before it
DanglingStep ==
    /\ Len(trace_file') = Len(trace_file) + 1
    /\ trace_file'[Len(trace_file')].first \in {"+", "-"}
    /\ FromHex(trace_file'[Len(trace_file')].toks[1])
           >= Len(LinesOf(trace_file, "a"))

\* C17: on a `+ IDX` or `- IDX` line whose IDX has no `a` line before it,
\* parse_file returns the Internal error ("allocation not found"); it does
\* not crash and the data read so far, the totals included, is unchanged.
C17_DanglingReference ==
    [][DanglingStep =>
          /\ presult' = "Internal"
          /\ parser'.data = parser.data]_vars

\* the number of entries of the two-level table
RECURSIVE EntriesOf(_, _)
EntriesOf(pointers, bigs) ==
    IF bigs = {} THEN 0
    ELSE LET big == CHOOSE b \in bigs : TRUE IN
         Len(pointers[big].small_ptr_parts)
             + EntriesOf(pointers, bigs \ {big})

\* C26: after any sequence of add_pointer and take_pointer every bucket has
\* small_ptr_parts and allocation_indices of equal length, holds no low part
\* twice and is not empty (an emptied bucket is erased from the outer map),
\* and the entries of all buckets are as many as the distinct live pointers.
C26_TableShape ==
    /\ \A big \in DOMAIN ptab :
          LET indices == ptab[big] IN
          /\ Len(indices.small_ptr_parts) = Len(indices.allocation_indices)
          /\ Len(indices.small_ptr_parts) > 0
          /\ \A i, j \in 1..Len(indices.small_ptr_parts) :
                indices.small_ptr_parts[i] = indices.small_ptr_parts[j]
                    => i = j
    /\ EntriesOf(ptab, DOMAIN ptab) = Cardinality(DOMAIN pmap)

\* the only pointer of its bucket taken, the bucket erased, while another
\* bucket holds two pointers
C26_Witness ==
    /\ ptaken.res # None
    /\ SplitPointer_new(ptaken.ptr).big \notin DOMAIN ptab
    /\ \E big \in DOMAIN ptab : Len(ptab[big].small_ptr_parts) = 2
    /\ Cardinality(DOMAIN pmap) = 3

\* the trace indices of the `a` lines among the first n lines of the trace
TraceIndicesRead(output, n) ==
    {FromHex(output[i].toks[2]) :
        i \in {j \in 1..n : output[j].first = "a"}}

\* the sum of the AllocationData of all entries, field by field
RECURSIVE SumOfEntries(_)
SumOfEntries(allocations) ==
    IF allocations = <<>> THEN AllocationDataDefault
    ELSE LET rest == SumOfEntries(Front(allocations))
             last == allocations[Len(allocations)].data
         IN [allocations |-> rest.allocations + last.allocations,
             temporary |-> rest.temporary + last.temporary,
             leaked |-> rest.leaked + last.leaked,
             peak |-> rest.peak + last.peak]

\* C24: after every line of the Interpreter's trace, the Parser's
\* `allocations` holds one entry per distinct trace index of the `a` lines
\* read, allocation_indices maps each such trace index to the position of
\* its entry, and the sums over all entries of data.allocations, data.leaked
\* and data.temporary are total.allocations, total.leaked, total.temporary.
C24_PerTraceAggregation ==
    LET allocations == parser.data.allocations
        indices == parser.data.allocation_indices
        sum == SumOfEntries(allocations)
    IN /\ {allocations[i].trace_idx : i \in 1..Len(allocations)} =
              TraceIndicesRead(interp.output, pos)
       /\ \A i, j \in 1..Len(allocations) :
              allocations[i].trace_idx = allocations[j].trace_idx => i = j
       /\ DOMAIN indices = TraceIndicesRead(interp.output, pos)
       /\ \A t \in DOMAIN indices :
              /\ indices[t] < Len(allocations)
              /\ allocations[indices[t] + 1].trace_idx = t
       /\ sum.allocations = parser.data.total.allocations
       /\ sum.leaked = parser.data.total.leaked
       /\ sum.temporary = parser.data.total.temporary

\* two trace indices, three `a` lines, a free counted temporary
C24_Witness ==
    /\ presult = "Ok"
    /\ Len(parser.data.allocations) = 2
    /\ Len(parser.data.allocation_infos) = 3
    /\ parser.data.total.temporary = 1
    /\ parser.data.total.allocations = 3
    /\ \A a \in 1..2 : parser.data.allocations[a].data.allocations > 0

(***************************************************************************)
(* last_ptr of the Interpreter                                             *)
(***************************************************************************)
\* the ptr of the last Alloc of h that no later record has reset, 0 if none:
\* every record that is neither Alloc nor Free resets it, and so does the
\* Free of that ptr
RECURSIVE LastPtrAfter(_)
LastPtrAfter(h) ==
    IF h = <<>> THEN 0
    ELSE LET record == h[Len(h)].record
             before == LastPtrAfter(Front(h))
         IN CASE record.tag = "Alloc" -> record.ptr
              [] record.tag = "Free" ->
                    IF record.ptr = before THEN 0 ELSE before
              [] OTHER -> 0

\* C23: while the records are handled without error, the Interpreter's
\* last_ptr is the ptr of the last Alloc, and 0 once a record that is neither
\* Alloc nor Free (Version, Exec, Image, PageInfo, Trace, Duration, RSS) or
\* the Free of that ptr has been handled since.
C23_LastPtrReset ==
    exec = "running" => interp.last_ptr = LastPtrAfter(history)

(***************************************************************************)
(* `R` and `c` lines                                                       *)
(***************************************************************************)
\* the largest BYTES of the `R` lines of `lines`, 0 if there is none
RECURSIVE PeakOf(_)
PeakOf(lines) ==
    IF lines = <<>> THEN 0
    ELSE LET line == lines[Len(lines)] IN
         IF line.first = "R"
         THEN Max(PeakOf(Front(lines)), FromHex(line.toks[1]))
         ELSE PeakOf(Front(lines))

\* the MS of the last `c` line of `lines`, 0 if there is none
RECURSIVE DurationOf(_)
DurationOf(lines) ==
    IF lines = <<>> THEN 0
    ELSE LET line == lines[Len(lines)] IN
         IF line.first = "c" THEN FromHex(line.toks[1])
         ELSE DurationOf(Front(lines))

\* AccumulatedData without its peak_rss and duration
BesidesRssAndDuration(data) == [data EXCEPT !.peak_rss = 0, !.duration = 0]

LinesRead == SubSeq(interp.output, 1, pos)

\* the Parser reads an `R` or a `c` line
ReadsRssOrDuration ==
    /\ pos' = pos + 1
    /\ interp.output[pos + 1].first \in {"R", "c"}

\* C22: after every line read, peak_rss is the maximum BYTES over the `R`
\* lines read (0 if none) and duration is the MS of the last `c` line read;
\* reading an `R` or a `c` line changes no other field of AccumulatedData
\* and leaves last_ptr, by which frees are classified temporary, as it was.
C22_RssAndDuration ==
    /\ [](/\ parser.data.peak_rss = PeakOf(LinesRead)
          /\ parser.data.duration = DurationOf(LinesRead))
    /\ [][ReadsRssOrDuration =>
             /\ BesidesRssAndDuration(parser'.data) =
                    BesidesRssAndDuration(parser.data)
             /\ parser'.last_ptr = parser.last_ptr]_vars

\* a trace read to its end whose peak is not its last `R` line, with a `c`
\* line
C22_Witness ==
    /\ presult = "Ok"
    /\ parser.data.peak_rss = 8192
    /\ Len(LinesOf(interp.output, "R")) = 2
    /\ LinesOf(interp.output, "R")[2].toks = <<ToHex(4096)>>
    /\ parser.data.duration = 5

(***************************************************************************)
(* Definition before use in the Interpreter's trace                        *)
(***************************************************************************)
\* the number of lines of the given kind among the first n lines of output
CountBefore(output, n, first) ==
    Cardinality({j \in 1..n : output[j].first = first})

\* the string indices of an `i` line: its module and, for each of the frames
\* written in it, the function and (if it has one) the file
StringIndices(line, frames) ==
    {FromHex(line.toks[2])}
    \cup {frames[j].function_idx : j \in 1..Len(frames)}
    \cup {frames[j].file_idx :
             j \in {i \in 1..Len(frames) : frames[i].kind = "Multiple"}}

\* line k of output names only what the lines before it define
DefinedBefore(output, k) ==
    LET line == output[k] IN
    /\ line.first \in {"+", "-"} =>
           FromHex(line.toks[1]) < CountBefore(output, k - 1, "a")
    /\ line.first = "t" =>
           FromHex(line.toks[1]) <= CountBefore(output, k - 1, "i")
    /\ line.first = "i" =>
           LET nth == CountBefore(output, k, "i") IN
           /\ nth <= Len(written)
           /\ \A idx \in StringIndices(line, written[nth]) :
                  idx <= CountBefore(output, k - 1, "s")

\* C25: in every prefix of the Interpreter's output the index of each `+`
\* and `-` line is smaller than the number of `a` lines before it, the ip id
\* of each `t` line is at most the number of `i` lines before it and every
\* string index of an `i` line (module, function, file) is at most the
\* number of `s` lines before it; the Parser reading that output never
\* indexes out of bounds and never reports a missing allocation.
C25_DefinedBeforeUse ==
    /\ \A k \in 1..Len(interp.output) : DefinedBefore(interp.output, k)
    /\ presult \notin {"panic", "Internal"}

\* a trace read to its end with an `i` line naming three strings, its `t`
\* line, and a `+` line
C25_Witness ==
    /\ presult = "Ok"
    /\ \E k \in 1..Len(interp.output) :
          /\ interp.output[k].first = "i"
          /\ Cardinality(StringIndices(interp.output[k],
                 written[CountBefore(interp.output, k, "i")])) = 3
    /\ Len(LinesOf(interp.output, "t")) = 1
    /\ Len(LinesOf(interp.output, "+")) = 1

(***************************************************************************)
(* The framing of the FIFO                                                 *)
(***************************************************************************)
\* C27: while the FIFO carries only what write_record wrote, every length
\* prefix the writer emits is the length of its payload, read_record never
\* crashes, and read_record returns the records written, equal in value and
\* in the same order, whatever the length of their payloads, and then the end
\* of the stream.
C27_PipeRoundTrip ==
    ~wire.foreign =>
        /\ \A i \in 1..Len(wire.framed) :
               wire.framed[i].len = wire.framed[i].size
        /\ \A i \in 1..Len(wire.got) :
               /\ wire.got[i].kind # "panic"
               /\ i <= Len(wire.sent) => wire.got[i] = ReadOk(wire.sent[i])
               /\ i > Len(wire.sent) => wire.got[i] = ReadNone

\* what read_record is to return on the given bytes: the end of the stream
\* when fewer than the 2 bytes of a length prefix are left, an error when
\* fewer bytes follow than the prefix says, InvalidFormat when the payload
\* does not decode, the decoded record otherwise
ReadOutcome(bytes) ==
    IF ByteLen(bytes) < 2 THEN ReadNone
    ELSE LET len == FromLE(Take(bytes, 2).head)
             after == Take(bytes, 2).rest
         IN IF ByteLen(after) < len THEN ReadErr("IOError")
            ELSE LET record == deserialize(Take(after, len).head) IN
                 IF record.ok THEN ReadOk(record.record)
                 ELSE ReadErr("InvalidFormat")

\* C21: read_record returns the end of the stream (None) when the 2-byte
\* length prefix cannot be read in full, an error when the payload is
\* shorter than the prefix says, InvalidFormat when the payload does not
\* decode to a Record, and the decoded record otherwise.
C21_ReadOutcomes ==
    wire.got # <<>> =>
        wire.got[Len(wire.got)] = ReadOutcome(wire.last_input)

====
